---------------------------- MODULE Spec2Model ----------------------------
(***************************************************************************)
(* A model of parts of the FCPP library:                                   *)
(*   - os::network        (lib/deployment/os.hpp): the background worker   *)
(*     that retries sends and collects received messages;                  *)
(*   - graph_spawner::net (lib/cloud/graph_spawner.hpp): creation of nodes *)
(*     and links from a nodes input and an arcs input;                     *)
(*   - logger::net        (lib/component/logger.hpp): the log stream, its  *)
(*     make_stream, the data puller and the update schedule;               *)
(*   - the sequence generators (lib/option/sequence.hpp) and their merge;  *)
(*   - the round scheduler of the devices, the exchange of exports and the *)
(*     gossip and sp_collection routines run over it, and the trace frame  *)
(*     of a routine call.                                                  *)
(* Each part has its own specification over its own group of variables;    *)
(* the other groups stay at their idle values.                             *)
(***************************************************************************)
EXTENDS Integers, Sequences, FiniteSets, TLC

VARIABLES
    \* ---- os::network<push, node_t, transceiver_t> ----
    push,          \* template parameter: deliver to the node at once
    charSigned,    \* whether plain char is signed in this build
    now,           \* m_node.net.internal_time(), in ticks (see Resolution)
    m_running,     \* os.hpp:181
    m_send,        \* os.hpp:187, a sequence of bytes 0..255
    m_send_time,   \* os.hpp:190, in ticks
    m_attempt,     \* os.hpp:193
    m_receive,     \* os.hpp:184, a sequence of [time, content]
    pc,            \* position of the manager thread in manage()
    joined,        \* the destructor has returned
    \* history of the calls made on the collaborators (not program state)
    sched,         \* what the last send() scheduled: [payload, time]
    accepted,      \* the envelope of the last send() has been accepted
    failStreak,    \* failed attempts since the last send() or acceptance
    call,          \* the collaborator call of the current manage() iteration
    lateCall,      \* a collaborator was called after the destructor returned
    recvLog,       \* when kept: what arrived, was returned and was delivered
    \* ---- graph_spawner::component::net ----
    attrs,         \* tags::node_attributes: the declared attribute tags
    startInit,     \* tags::start of the initialisation tuple, in halves
    m_start,       \* graph_spawner.hpp:172, in halves
    m_nodesstream, \* graph_spawner.hpp:175, the tokens not read yet
    m_arcsstream,  \* graph_spawner.hpp:178, the tokens not read yet
    row,           \* the local variable row of read_nodes
    nodes,         \* the tuples passed to node_emplace, in call order
    links,         \* the connect calls <<from, to>>, in call order
    gpc,           \* position in the constructor of the net
    \* the inputs as given (not program state)
    nodesInput,
    arcsInput,
    \* ---- logger::component::net ----
    lphase,        \* "unborn", "live" (constructed) or "dead" (destroyed)
    m_stream,      \* logger.hpp:411, the lines written so far
    m_schedule,    \* logger.hpp:420, the state of the log schedule
    parentQueue,   \* the pending event times of the parent net P::net
    \* history (not program state)
    scheduleInit,  \* the log schedule as constructed
    consumed,      \* the events stepped over by m_schedule.step, in order
    lastUpdate,    \* what the last update() did: "row", "parent", "none"
    \* ---- logger::net::data_puller (pull mode) ----
    parallel,      \* declaration flag tags::parallel (logger.hpp:186)
    m_threads,     \* logger.hpp:429
    storage,       \* the storage values of the nodes, in node order
    thread_aggregators, \* the local of data_puller (logger.hpp:383)
    m_aggregators, \* logger.hpp:423
    todo,          \* the indices parallel_for has not handed out yet
    pullIdx,       \* the loop variable: it, or i of the merging loop
    pullpc,        \* position in data_puller
    insertedBy,    \* history: the threads that inserted each node
    \* ---- sequence::merge<Ss...> ----
    m_generators,  \* logger.hpp:930, the sub-sequences
    m_next,        \* logger.hpp:933
    generatorsInit, \* history: the sub-sequences as constructed
    produced,      \* history: the values returned by operator(), in order
    \* ---- the rounds of two devices under the net scheduler ----
    devSchedule,   \* the round schedule of each device, by uid
    devRounds,     \* history: the number of rounds executed for each device
    devScheduleInit,\* history: the round schedules as constructed
    \* ---- a network of devices running a coordination routine ----
    program,       \* the routine every device runs in its rounds
    nbrs,          \* the neighbours of each device (who receives its exports)
    value,         \* the input value of each device
    distance,      \* the distance estimate of each device
    export,        \* the export of the last round of each device
    context,       \* per device, the last export received from each neighbour
    rounds,        \* history: the rounds executed by each device (up to MaxRounds)
    lockstep,      \* history: no device ran a round ahead of another
    lastDevice,    \* history: the device of the last round
    \* ---- a call of sp_collection, mp_collection or wmp_collection ----
    routine,       \* the routine called
    call_point,    \* the argument call_point
    stack_trace,   \* node.stack_trace: the call points of the open frames
    tracepc,       \* position of the call: before, inside or after
    opIdx,         \* the next exchange operation of the body
    failed,        \* the body has failed (an exception left the routine)
    stackBefore,   \* history: the stack before the call
    framesSeen,    \* history: the stack under which each operation ran
    \* ---- details::make_stream: the sink of the logger ----
    outputForm,    \* the form of tags::output: none, pointer, string or cstring
    outputString,  \* the characters of tags::output when it is a string
    netName,       \* tags::name of the initialisation tuple (empty when absent)
    hasPlotter,    \* tags::plotter is in the initialisation tuple
    netParams,     \* the other initialisation parameters, as printed
    sink,          \* what m_stream refers to
    streampc,      \* position: init, made or released
    closedByLogger,\* the logger has destroyed the stream object
    \* ---- element-wise arithmetic of std::array<int, n> (lib/common/array.hpp) ----
    arr_u,         \* the left array operand
    arr_v,         \* the right array operand
    arr_k,         \* the scalar operand
    arr_op,        \* the expression or statement evaluated, "none" before
    arr_res,       \* its value: of the expression, or of the variable assigned
    \* ---- the round engine: contexts, mailboxes and round failures (spec 4.3-4.7) ----
    retain_window, \* the retain window of the contexts
    cxLive,        \* per device: not erased
    cursor,        \* per device: the scheduler cursor, its next wake-up time
    cxPeriod,      \* per device: the period of its rounds
    cxExport,      \* per device: the time its export was sealed, -1 when none
    cxContext,     \* per device: neighbour uid -> reception time, -1 for no entry
    mailbox,       \* per device: the envelopes (sender, send_time) not drained yet
    roundTime,     \* per device: the time of its last round, -1 when none
    lastHeard,     \* per device: neighbour uid -> last reception time recorded
    lastRound,     \* the last round executed: its number, device, time, outcome
    \* ---- logger: the nodes and the aggregators of the net (logger.hpp:209-313) ----
    value_push,    \* declaration flag: values are pushed to the aggregators
    lifecycle,     \* per node: "unborn", "idle", "round" or "dead"
    nodeStorage,   \* per node: the value of its storage tuple
    netAggregators, \* m_aggregators of the net the nodes belong to
    lastPush,      \* per node: the last aggregator call it made, and its tuple
    lastRow,       \* the last row written: its data, and the nodes present then
    \* ---- sequence::details::grid (logger.hpp:971-1027) ----
    m_init,        \* the lower point of the grid
    m_step,        \* per axis: the distance of two points next to each other
    m_mods,        \* per axis: the number of steps
    m_divs,        \* per axis: the number of points with the earlier axes only
    m_i,           \* the number of points stepped over
    lastPoint      \* history: the point the last operator() returned

osVars == <<push, charSigned, now, m_running, m_send, m_send_time, m_attempt,
            m_receive, pc, joined, sched, accepted,
            failStreak, call, lateCall, recvLog>>

gsVars == <<attrs, startInit, m_start, m_nodesstream, m_arcsstream, row,
            nodes, links, gpc, nodesInput, arcsInput>>

lgVars == <<lphase, m_stream, m_schedule, parentQueue, scheduleInit,
            consumed, lastUpdate>>

plVars == <<parallel, m_threads, storage, thread_aggregators,
            m_aggregators, todo, pullIdx, pullpc, insertedBy>>

sqVars == <<m_generators, m_next, generatorsInit, produced>>

scVars == <<devSchedule, devRounds, devScheduleInit>>

nwVars == <<program, nbrs, value, distance, export, context, rounds,
            lockstep, lastDevice>>

trVars == <<routine, call_point, stack_trace, tracepc, opIdx, failed,
            stackBefore, framesSeen>>

stVars == <<outputForm, outputString, netName, hasPlotter, netParams, sink,
            streampc, closedByLogger>>

arVars == <<arr_u, arr_v, arr_k, arr_op, arr_res>>

cxVars == <<retain_window, cxLive, cursor, cxPeriod, cxExport, cxContext,
            mailbox, roundTime, lastHeard, lastRound>>

agVars == <<value_push, lifecycle, nodeStorage, netAggregators, lastPush,
            lastRow>>

gdVars == <<m_init, m_step, m_mods, m_divs, m_i, lastPoint>>

vars == <<osVars, gsVars, lgVars, plVars, sqVars, scVars, nwVars, trVars,
          stVars, arVars, cxVars, agVars, gdVars>>

\* What a specification of one part leaves alone.
notOs == <<gsVars, lgVars, plVars, sqVars, scVars, nwVars, trVars, stVars,
           arVars, cxVars, agVars, gdVars>>
notGs == <<osVars, lgVars, plVars, sqVars, scVars, nwVars, trVars, stVars,
           arVars, cxVars, agVars, gdVars>>
notLg == <<osVars, gsVars, plVars, sqVars, scVars, nwVars, trVars, stVars,
           arVars, cxVars, agVars, gdVars>>
notPl == <<osVars, gsVars, lgVars, sqVars, scVars, nwVars, trVars, stVars,
           arVars, cxVars, agVars, gdVars>>
notSq == <<osVars, gsVars, lgVars, plVars, scVars, nwVars, trVars, stVars,
           arVars, cxVars, agVars, gdVars>>
notSc == <<osVars, gsVars, lgVars, plVars, sqVars, nwVars, trVars, stVars,
           arVars, cxVars, agVars, gdVars>>
notNw == <<osVars, gsVars, lgVars, plVars, sqVars, scVars, trVars, stVars,
           arVars, cxVars, agVars, gdVars>>
notTr == <<osVars, gsVars, lgVars, plVars, sqVars, scVars, nwVars, stVars,
           arVars, cxVars, agVars, gdVars>>
notSt == <<osVars, gsVars, lgVars, plVars, sqVars, scVars, nwVars, trVars,
           arVars, cxVars, agVars, gdVars>>
notAr == <<osVars, gsVars, lgVars, plVars, sqVars, scVars, nwVars, trVars,
           stVars, cxVars, agVars, gdVars>>
notCx == <<osVars, gsVars, lgVars, plVars, sqVars, scVars, nwVars, trVars,
           stVars, arVars, agVars, gdVars>>
notAg == <<osVars, gsVars, lgVars, plVars, sqVars, scVars, nwVars, trVars,
           stVars, arVars, cxVars, gdVars>>
notGd == <<osVars, gsVars, lgVars, plVars, sqVars, scVars, nwVars, trVars,
           stVars, arVars, cxVars, agVars>>

---------------------------------------------------------------------------
(* Bounds of the model. *)

\* number of failed attempts counted (m_attempt is an int)
MaxAttempt == 2
\* number of messages held by m_receive
MaxRecv == 1
\* number of messages that arrive at a node whose receptions are logged
MaxArrivals == 2

\* number of tokens of the nodes input
MaxNodeTokens == 4
\* number of tokens of the arcs input
MaxArcTokens == 3

\* number of nodes whose storage the logger pulls
MaxNodes == 3
\* number of threads of the parallel pull
MaxThreads == 2

\* number of rounds counted per device
MaxRounds == 3

\* number of characters of the string of tags::output
MaxPathLen == 2
\* the largest absolute value of an array element and of a scalar
MaxElem == 2
\* the latest time of a round of the round engine
MaxClock == 16

\* number of axes of a grid
MaxDim == 2
\* number of steps of an axis of a grid
MaxMods == 3

\* the largest event time of a schedule or of the parent net
MaxTime == 3
\* number of events of a list or multiple schedule, and of the parent net
MaxEvents == 2

(* Program constants. *)

\* the factor of the relative timestamp (os.hpp:138, os.hpp:153)
DelayScale == 128
\* the clamp of the relative timestamp (os.hpp:138)
DelayClamp == 255
\* the time of no event (logger.hpp:501), larger than every event time
TIME_MAX == 1000

\* Time is counted in ticks of 1/(2*DelayScale) of a time unit, so that
\* (dt * 128) can have a fractional part, which the cast to char drops.
Resolution == 2 * DelayScale

\* The instants (in ticks) at which the clock is read: within one unit of
\* the timestamp of each other, and around the clamp.
ClockValues == {0, 1, 2 * DelayClamp, 2 * DelayClamp + 3}

\* The payloads handed to send(); the empty vector is a legal argument.
Payloads == {<<>>, <<1>>, <<2>>}

\* What transceiver.receive returns: no message (empty content), or a
\* payload followed by the sender's delay byte: the largest byte that a
\* signed char holds as it is, and the largest byte the sender writes.
RxPayloads == {<<7>>}
DelayBytes == {127, 255}
RxContents == {<<>>} \cup {Append(p, d) : p \in RxPayloads, d \in DelayBytes}

\* What transceiver.receive may return besides: a message of one byte.
RxShort == {<<d>> : d \in DelayBytes}

NoMsg == [time |-> 0, content |-> <<>>]

\* The log of the receptions, not kept.
NoLog == [on |-> FALSE, arrived |-> <<>>, returned |-> <<>>,
          delivered |-> <<>>]

\* No collaborator call made (yet) in this iteration.
NoCall == [op |-> "none", env |-> <<>>, attempt |-> 0, ok |-> FALSE,
           msg |-> NoMsg]

---------------------------------------------------------------------------
(* Helpers. *)

Min(a, b) == IF a < b THEN a ELSE b

\* std::vector::pop_back
PopBack(s) == SubSeq(s, 1, Len(s) - 1)

\* std::vector::back
Back(s) == s[Len(s)]

\* A delay byte without the clamp: (char)((internal_time - m_send_time)*128).
DelayByte_NoClamp(dt) == (dt * DelayScale) \div Resolution

\* (char)std::min((internal_time - m_send_time)*128, times_t{255}) as the
\* byte stored: the smaller of the two reals, its fractional part dropped by
\* the conversion. dt is in ticks.
DelayByte(dt) ==
    IF dt * DelayScale < DelayClamp * Resolution
    THEN (dt * DelayScale) \div Resolution
    ELSE DelayClamp

\* A failed attempt that leaves the delay byte in place.
AfterFailure_NoPop(env) == env

\* m_send.pop_back() after a failed attempt
AfterFailure(env) == PopBack(env)

\* The value of a stored byte read through plain char.
CharValue(b) == IF charSigned /\ b >= 128 THEN b - 256 ELSE b

\* internal_time - m.content.back() / times_t{128}, in ticks
ReceptionTime(t, b) == t - (CharValue(b) * Resolution) \div DelayScale

---------------------------------------------------------------------------
(* The idle values of each part, for the specifications of the others. *)

IdleOs ==
    /\ push = FALSE
    /\ charSigned = FALSE
    /\ now = 0
    /\ m_running = FALSE
    /\ m_send = <<>>
    /\ m_send_time = 0
    /\ m_attempt = 0
    /\ m_receive = <<>>
    /\ pc = "done"
    /\ joined = TRUE
    /\ sched = [payload |-> <<>>, time |-> 0]
    /\ accepted = FALSE
    /\ failStreak = 0
    /\ call = NoCall
    /\ lateCall = FALSE
    /\ recvLog = NoLog

IdleGs ==
    /\ attrs = <<>>
    /\ startInit = -1
    /\ m_start = 0
    /\ m_nodesstream = <<>>
    /\ m_arcsstream = <<>>
    /\ row = <<>>
    /\ nodes = <<>>
    /\ links = <<>>
    /\ gpc = "idle"
    /\ nodesInput = <<>>
    /\ arcsInput = <<>>

\* sequence::never, also the generator of a part that is idle
Never == [kind |-> "never", t |-> 0, te |-> 0, n |-> 0, i |-> 0, p |-> 0,
          pending |-> <<>>]

IdleLg ==
    /\ lphase = "idle"
    /\ m_stream = <<>>
    /\ m_schedule = Never
    /\ parentQueue = <<>>
    /\ scheduleInit = Never
    /\ consumed = <<>>
    /\ lastUpdate = "none"

IdlePl ==
    /\ parallel = FALSE
    /\ m_threads = 1
    /\ storage = <<>>
    /\ thread_aggregators = <<>>
    /\ m_aggregators = <<>>
    /\ todo = {}
    /\ pullIdx = 0
    /\ pullpc = "idle"
    /\ insertedBy = <<>>

IdleSq ==
    /\ m_generators = <<>>
    /\ m_next = TIME_MAX
    /\ generatorsInit = <<>>
    /\ produced = <<>>

IdleSc ==
    /\ devSchedule = <<>>
    /\ devRounds = <<>>
    /\ devScheduleInit = <<>>

IdleNw ==
    /\ program = "none"
    /\ nbrs = <<>>
    /\ value = <<>>
    /\ distance = <<>>
    /\ export = <<>>
    /\ context = <<>>
    /\ rounds = <<>>
    /\ lockstep = TRUE
    /\ lastDevice = -1

IdleTr ==
    /\ routine = "none"
    /\ call_point = 0
    /\ stack_trace = <<>>
    /\ tracepc = "idle"
    /\ opIdx = 0
    /\ failed = FALSE
    /\ stackBefore = <<>>
    /\ framesSeen = <<>>

IdleSt ==
    /\ outputForm = "none"
    /\ outputString = <<>>
    /\ netName = <<>>
    /\ hasPlotter = FALSE
    /\ netParams = <<>>
    /\ sink = [kind |-> "none", path |-> <<>>, owned |-> FALSE]
    /\ streampc = "idle"
    /\ closedByLogger = FALSE

IdleAr ==
    /\ arr_u = <<>>
    /\ arr_v = <<>>
    /\ arr_k = 0
    /\ arr_op = "none"
    /\ arr_res = <<>>

IdleCx ==
    /\ retain_window = 0
    /\ cxLive = <<>>
    /\ cursor = <<>>
    /\ cxPeriod = <<>>
    /\ cxExport = <<>>
    /\ cxContext = <<>>
    /\ mailbox = <<>>
    /\ roundTime = <<>>
    /\ lastHeard = <<>>
    /\ lastRound = [n |-> 0, dev |-> 0, time |-> 0, failed |-> FALSE]

IdleAg ==
    /\ value_push = FALSE
    /\ lifecycle = <<>>
    /\ nodeStorage = <<>>
    /\ netAggregators = <<>>
    /\ lastPush = <<>>
    /\ lastRow = [written |-> FALSE, data |-> <<>>, present |-> <<>>]

IdleGd ==
    /\ m_init = <<>>
    /\ m_step = <<>>
    /\ m_mods = <<>>
    /\ m_divs = <<>>
    /\ m_i = 0
    /\ lastPoint = <<>>

---------------------------------------------------------------------------
(* os::network *)

InitOs ==
    /\ push \in BOOLEAN
    /\ charSigned \in BOOLEAN
    /\ now = 0
    /\ m_running = TRUE
    /\ m_send = <<>>
    /\ m_send_time = 0
    /\ m_attempt = 0
    /\ m_receive = <<>>
    /\ pc = "loop"
    /\ joined = FALSE
    /\ sched = [payload |-> <<>>, time |-> 0]
    /\ accepted = FALSE
    /\ failStreak = 0
    /\ call = NoCall
    /\ lateCall = FALSE
    /\ recvLog = NoLog
    /\ IdleGs
    /\ IdleLg
    /\ IdlePl
    /\ IdleSq
    /\ IdleSc
    /\ IdleNw
    /\ IdleTr
    /\ IdleSt
    /\ IdleAr
    /\ IdleCx
    /\ IdleAg
    /\ IdleGd

\* The clock of the node advances.
Tick ==
    /\ ~joined
    /\ \E t \in ClockValues : t > now /\ now' = t
    /\ UNCHANGED <<push, charSigned, m_running, m_send, m_send_time,
                   m_attempt, m_receive, pc, joined, sched,
                   accepted, failStreak, call, lateCall>>
    /\ UNCHANGED recvLog
    /\ UNCHANGED notOs

\* A send() that installs the payload and leaves the send time as it was.
Send_KeepTime(m) ==
    /\ m_running
    /\ m_send' = m
    /\ m_attempt' = 0
    /\ accepted' = FALSE
    /\ sched' = [payload |-> m, time |-> now]
    /\ failStreak' = 0
    /\ UNCHANGED <<push, charSigned, now, m_running, m_send_time, m_receive,
                   pc, joined, call, lateCall>>
    /\ UNCHANGED recvLog
    /\ UNCHANGED notOs

\* network::send, the whole body under m_send_mutex.
Send(m) ==
    /\ m_running
    /\ m_send' = m
    /\ m_send_time' = now
    /\ m_attempt' = 0
    /\ accepted' = FALSE
    /\ sched' = [payload |-> m, time |-> now]
    /\ failStreak' = 0
    /\ UNCHANGED <<push, charSigned, now, m_running, m_receive, pc, joined,
                   call, lateCall>>
    /\ UNCHANGED recvLog
    /\ UNCHANGED notOs

\* A receive() that returns the buffer and leaves it as it is.
Receive_NoSwap ==
    /\ m_running
    /\ ~push
    /\ m_receive # <<>>
    /\ m_receive' = m_receive
    /\ recvLog' = IF recvLog.on
                  THEN [recvLog EXCEPT !.returned = @ \o m_receive]
                  ELSE recvLog
    /\ UNCHANGED <<push, charSigned, now, m_running, m_send, m_send_time,
                   m_attempt, pc, joined, sched, accepted,
                   failStreak, call, lateCall>>
    /\ UNCHANGED notOs

\* network::receive, the swap under m_receive_mutex.
Receive ==
    /\ m_running
    /\ ~push
    /\ m_receive # <<>>
    /\ m_receive' = <<>>
    /\ recvLog' = IF recvLog.on
                  THEN [recvLog EXCEPT !.returned = @ \o m_receive]
                  ELSE recvLog
    /\ UNCHANGED <<push, charSigned, now, m_running, m_send, m_send_time,
                   m_attempt, pc, joined, sched, accepted,
                   failStreak, call, lateCall>>
    /\ UNCHANGED notOs

\* network::~network, first statement.
Destroy ==
    /\ m_running
    /\ m_running' = FALSE
    /\ UNCHANGED <<push, charSigned, now, m_send, m_send_time, m_attempt,
                   m_receive, pc, joined, sched, accepted,
                   failStreak, call, lateCall>>
    /\ UNCHANGED recvLog
    /\ UNCHANGED notOs

\* A destructor that does not wait for the manager thread.
Join_NoWait ==
    /\ ~m_running
    /\ ~joined
    /\ joined' = TRUE
    /\ UNCHANGED <<push, charSigned, now, m_running, m_send, m_send_time,
                   m_attempt, m_receive, pc, sched,
                   accepted, failStreak, call, lateCall>>
    /\ UNCHANGED recvLog
    /\ UNCHANGED notOs

\* network::~network, m_manager.join(): returns once manage() has returned.
Join ==
    /\ ~m_running
    /\ ~joined
    /\ pc = "done"
    /\ joined' = TRUE
    /\ UNCHANGED <<push, charSigned, now, m_running, m_send, m_send_time,
                   m_attempt, m_receive, pc, sched,
                   accepted, failStreak, call, lateCall>>
    /\ UNCHANGED recvLog
    /\ UNCHANGED notOs

\* manage(): while (m_running)
ManageLoop ==
    /\ pc = "loop"
    /\ pc' = IF m_running THEN "test" ELSE "done"
    /\ call' = NoCall
    /\ UNCHANGED <<push, charSigned, now, m_running, m_send, m_send_time,
                   m_attempt, m_receive, joined, sched,
                   accepted, failStreak, lateCall>>
    /\ UNCHANGED recvLog
    /\ UNCHANGED notOs

\* manage(): if (not m_send.empty()), read without the mutex
ManageTest ==
    /\ pc = "test"
    /\ pc' = IF m_send # <<>> THEN "attempt" ELSE "recv"
    /\ UNCHANGED <<push, charSigned, now, m_running, m_send, m_send_time,
                   m_attempt, m_receive, joined, sched,
                   accepted, failStreak, call, lateCall>>
    /\ UNCHANGED recvLog
    /\ UNCHANGED notOs

\* manage(): the send attempt, under m_send_mutex. ok is the result of
\* transceiver.send.
ManageSend(ok) ==
    /\ pc = "attempt"
    /\ ok \/ m_attempt < MaxAttempt
    /\ LET env == Append(m_send, DelayByte(now - m_send_time))
       IN  /\ call' = [NoCall EXCEPT !.op = "send", !.env = env,
                                     !.attempt = m_attempt, !.ok = ok]
           /\ IF ok
              THEN /\ m_send' = <<>>
                   /\ m_attempt' = m_attempt
                   /\ failStreak' = 0
                   /\ accepted' = TRUE
              ELSE /\ m_send' = AfterFailure(env)
                   /\ m_attempt' = m_attempt + 1
                   /\ failStreak' = failStreak + 1
                   /\ accepted' = accepted
    /\ lateCall' = (lateCall \/ joined)
    /\ pc' = "recv"
    /\ UNCHANGED <<push, charSigned, now, m_running, m_send_time, m_receive,
                   joined, sched>>
    /\ UNCHANGED recvLog
    /\ UNCHANGED notOs

\* The messages that may still arrive: where the receptions are logged, a
\* number of them in all; otherwise as many as the buffer is let to hold.
MayArrive ==
    IF recvLog.on THEN Len(recvLog.arrived) < MaxArrivals
    ELSE push \/ Len(m_receive) < MaxRecv

\* A receive part that buffers the message also when it is pushed.
ManageReceive_AlsoBuffers(c) ==
    /\ pc = "recv"
    /\ c = <<>> \/ MayArrive
    /\ IF c # <<>>
       THEN LET m == [time |-> ReceptionTime(now, Back(c)),
                      content |-> PopBack(c)]
            IN  /\ call' = [NoCall EXCEPT !.op = "receive", !.env = c,
                                          !.attempt = m_attempt, !.msg = m]
                /\ m_receive' = Append(m_receive, m)
                /\ recvLog' =
                      IF recvLog.on
                      THEN [recvLog EXCEPT
                              !.arrived = Append(@, c),
                              !.delivered = IF push THEN Append(@, m) ELSE @]
                      ELSE recvLog
       ELSE /\ call' = [NoCall EXCEPT !.op = "receive",
                                      !.attempt = m_attempt]
            /\ UNCHANGED <<m_receive, recvLog>>
    /\ lateCall' = (lateCall \/ joined)
    /\ pc' = "loop"
    /\ UNCHANGED <<push, charSigned, now, m_running, m_send, m_send_time,
                   m_attempt, joined, sched, accepted,
                   failStreak>>
    /\ UNCHANGED notOs

\* manage(): the receive part. c is the content of the message returned by
\* transceiver.receive. A message pushed is passed to m_node.receive.
ManageReceive(c) ==
    /\ pc = "recv"
    /\ c = <<>> \/ MayArrive
    /\ IF c # <<>>
       THEN LET m == [time |-> ReceptionTime(now, Back(c)),
                      content |-> PopBack(c)]
            IN  /\ call' = [NoCall EXCEPT !.op = "receive", !.env = c,
                                          !.attempt = m_attempt, !.msg = m]
                /\ m_receive' = IF push THEN m_receive
                                ELSE Append(m_receive, m)
                /\ recvLog' =
                      IF recvLog.on
                      THEN [recvLog EXCEPT
                              !.arrived = Append(@, c),
                              !.delivered = IF push THEN Append(@, m) ELSE @]
                      ELSE recvLog
       ELSE /\ call' = [NoCall EXCEPT !.op = "receive",
                                      !.attempt = m_attempt]
            /\ UNCHANGED <<m_receive, recvLog>>
    /\ lateCall' = (lateCall \/ joined)
    /\ pc' = "loop"
    /\ UNCHANGED <<push, charSigned, now, m_running, m_send, m_send_time,
                   m_attempt, joined, sched, accepted,
                   failStreak>>
    /\ UNCHANGED notOs

Manager ==
    \/ ManageLoop
    \/ ManageTest
    \/ \E ok \in BOOLEAN : ManageSend(ok)
    \/ \E c \in RxContents : ManageReceive(c)

NextOs ==
    \/ Tick
    \/ \E m \in Payloads : Send(m)
    \/ Receive
    \/ Destroy
    \/ Join
    \/ Manager

SpecOs == InitOs /\ [][NextOs]_vars

\* A node that never calls send(), with the receptions logged: nothing is
\* ever pending, and the transceiver returns messages of any length.
InitOsListen ==
    /\ push \in BOOLEAN
    /\ charSigned \in BOOLEAN
    /\ now = 0
    /\ m_running = TRUE
    /\ m_send = <<>>
    /\ m_send_time = 0
    /\ m_attempt = 0
    /\ m_receive = <<>>
    /\ pc = "loop"
    /\ joined = FALSE
    /\ sched = [payload |-> <<>>, time |-> 0]
    /\ accepted = FALSE
    /\ failStreak = 0
    /\ call = NoCall
    /\ lateCall = FALSE
    /\ recvLog = [NoLog EXCEPT !.on = TRUE]
    /\ IdleGs
    /\ IdleLg
    /\ IdlePl
    /\ IdleSq
    /\ IdleSc
    /\ IdleNw
    /\ IdleTr
    /\ IdleSt
    /\ IdleAr
    /\ IdleCx
    /\ IdleAg
    /\ IdleGd

NextOsListen ==
    \/ Tick
    \/ Receive
    \/ Destroy
    \/ Join
    \/ ManageLoop
    \/ ManageTest
    \/ \E c \in RxContents \cup RxShort : ManageReceive(c)

SpecOsListen == InitOsListen /\ [][NextOsListen]_vars

\* The manager thread keeps running while it has a step to take, and the
\* transceiver, asked again and again, eventually accepts.
\* The progress of the send part is followed on the build whose char is
\* signed: the signedness enters the receive part only.
InitOsFair == InitOs /\ charSigned

SpecOsFair ==
    /\ InitOsFair
    /\ [][NextOs]_vars
    /\ WF_vars(Manager)
    /\ SF_vars(ManageSend(TRUE))

---------------------------------------------------------------------------
(* Claims about os::network *)

\* A step of manage() that makes a transceiver.send attempt.
SendAttempt == pc = "attempt" /\ pc' = "recv"

\* A step of manage() that calls transceiver.receive.
ReceiveCall == pc = "recv" /\ pc' = "loop"

\* C1 (safety part): an iteration of manage() that finds a message pending
\* makes one transceiver.send attempt; a failed attempt leaves the pending
\* message as it was; a pending message changes only by an accepted attempt
\* or by a send() call; an envelope already accepted is not handed to the
\* transceiver again.
C1_Steps ==
    /\ (pc = "test" /\ m_send # <<>> /\ pc' # pc) => pc' = "attempt"
    /\ SendAttempt => /\ call'.op = "send"
                      /\ ~accepted
                      /\ ~call'.ok => m_send' = m_send
                      /\ call'.ok => (m_send' = <<>> /\ accepted')
    /\ (m_send # <<>> /\ m_send' # m_send) =>
          \/ SendAttempt /\ call'.ok
          \/ \E m \in Payloads : Send(m)

\* C1: in os::network a pending message is attempted in every iteration of
\* manage(), stays pending after a failed attempt, and leaves only by an
\* accepted attempt or a later send(); so with a transceiver that eventually
\* accepts, a pending message is eventually transmitted (or replaced by an
\* empty one, or the network is destroyed), and it is transmitted once.
C1_RetryUntilAccepted ==
    /\ [][C1_Steps]_vars
    /\ (m_send # <<>>) ~> (accepted \/ sched.payload = <<>> \/ ~m_running)

\* C1 witness: a message was accepted on a retry, after a failed attempt.
C1_Witness ==
    /\ call.op = "send"
    /\ call.ok
    /\ call.attempt > 0
    /\ accepted
    /\ m_send = <<>>

\* C2: the attempt number passed to transceiver.send and to
\* transceiver.receive is the number of consecutive failed send attempts:
\* 0 after send(), one more after each failed attempt, 0 again after an
\* accepted attempt.
C2_AttemptIsFailStreak ==
    [][(SendAttempt \/ ReceiveCall) => call'.attempt = failStreak]_vars

\* C3: every envelope handed to transceiver.send is the payload scheduled by
\* the last send() followed by exactly one byte, which is
\* min((internal_time - time of the send() call) * 128, 255) with its
\* fraction dropped: it lies in 0..255 and is 255 for every delay of 255/128
\* time units or more.
C3_Envelope ==
    [][SendAttempt =>
        LET dt == now - sched.time
            b  == Back(call'.env)
        IN  /\ call'.env = Append(sched.payload, b)
            /\ b \in 0..DelayClamp
            /\ dt * DelayScale >= DelayClamp * Resolution => b = DelayClamp
            /\ dt * DelayScale < DelayClamp * Resolution =>
                  /\ b * Resolution <= dt * DelayScale
                  /\ dt * DelayScale < (b + 1) * Resolution]_vars

\* C3 witness: a retry whose delay was clamped to 255.
C3_Witness ==
    /\ call.op = "send"
    /\ call.attempt > 0
    /\ call.env = Append(sched.payload, DelayClamp)
    /\ now - sched.time > 2 * DelayClamp
    /\ sched.payload # <<>>

\* C4: of every non-empty message returned by transceiver.receive exactly the
\* last byte d is removed and the reception time is internal_time - d/128,
\* d being the value 0..255 the sender wrote: never later than internal_time
\* and at most 255/128 time units earlier.
C4_ReceptionTime ==
    [][(ReceiveCall /\ call'.env # <<>>) =>
        LET d == Back(call'.env)
        IN  /\ call'.msg.content = PopBack(call'.env)
            /\ call'.msg.time * DelayScale = now * DelayScale - d * Resolution
            /\ call'.msg.time <= now
            /\ (now - call'.msg.time) * DelayScale <= DelayClamp * Resolution
      ]_vars

\* C5 (states): the destructor has returned only if the running flag is
\* cleared and manage() has returned, and no collaborator was called after.
C5_Joined ==
    /\ joined => (~m_running /\ pc = "done")
    /\ ~lateCall

\* C5 (steps): once the flag is cleared the loop head leads out of manage();
\* after the destructor has returned nothing is sent, received or delivered.
C5_Steps ==
    /\ (~m_running /\ pc = "loop" /\ pc' # pc) => pc' = "done"
    /\ Destroy => ~m_running'
    /\ joined => UNCHANGED <<call, m_send, m_receive, pc>>

\* C5: destroying the network clears the running flag; the manager loop
\* reads the flag at the start of each iteration and leaves at the first
\* read after that; the destructor returns only after manage() returned;
\* afterwards there is no transceiver.send, transceiver.receive or
\* node.receive call, and a message still pending is dropped.
C5_Shutdown == []C5_Joined /\ [][C5_Steps]_vars

\* C5 witness: the destructor has returned with a message still pending.
C5_Witness == joined /\ m_send # <<>> /\ ~accepted

\* Between the steps of manage() the pending message is empty or the payload
\* of the last send() call, never longer.
C27_Pending ==
    /\ m_send = <<>> \/ m_send = sched.payload
    /\ Len(m_send) <= Len(sched.payload)

\* Every attempt transmits the payload and one byte; a failed one leaves the
\* pending message as it was before the attempt, the byte removed again.
C27_Step ==
    SendAttempt =>
        /\ m_send = sched.payload
        /\ Len(call'.env) = Len(sched.payload) + 1
        /\ PopBack(call'.env) = sched.payload
        /\ ~call'.ok => m_send' = sched.payload

\* C27: a failed send attempt leaves the pending message exactly as it was
\* scheduled: the delay byte appended for the attempt is removed again, the
\* pending message is empty or the payload of the last send(), delay bytes
\* do not accumulate, and every retry transmits the payload plus one byte.
C27_FailedAttemptRestores == []C27_Pending /\ [][C27_Step]_vars

\* C27 witness: the second attempt in a row has failed, and the message
\* pending is the payload scheduled.
C27_Witness ==
    /\ call.op = "send"
    /\ ~call.ok
    /\ call.attempt = 1
    /\ m_send # <<>>
    /\ m_send = sched.payload
    /\ call.env = Append(m_send, Back(call.env))

\* While a message is pending, the payload, the send time and the attempt
\* counter are those of the last send() call.
C28_Installed ==
    m_send # <<>> =>
        /\ m_send = sched.payload
        /\ m_send_time = sched.time
        /\ m_attempt = failStreak

\* A send() installs payload, send time and attempt counter in one step; an
\* attempt transmits the payload of the last send() with the delay since
\* that send(), and counts the attempts since that send().
C28_Step ==
    /\ (sched' # sched) =>
          /\ m_send' = sched'.payload
          /\ m_send_time' = now
          /\ sched'.time = now
          /\ m_attempt' = 0
    /\ SendAttempt =>
          /\ call'.env = Append(sched.payload, DelayByte(now - sched.time))
          /\ call'.attempt = failStreak

\* C28: a send() while an earlier message is pending replaces it: one
\* message is pending at most, the message replaced is not transmitted
\* afterwards, and payload, send time and attempt counter of the new message
\* are installed together, so that a delay byte is computed from the send
\* time of the payload it is appended to.
C28_SendReplaces == []C28_Installed /\ [][C28_Step]_vars

\* C28 witness: in the iteration in which an attempt for a message failed, a
\* later send() has replaced that message by another one.
C28_Witness ==
    /\ pc = "recv"
    /\ call.op = "send"
    /\ ~call.ok
    /\ m_attempt = 0
    /\ m_send # <<>>
    /\ PopBack(call.env) # <<>>
    /\ PopBack(call.env) # m_send
    /\ m_send_time > 0

\* The contents of the messages q, in order.
Contents(q) == [k \in 1..Len(q) |-> q[k].content]

\* The contents that the envelopes q carry once the last byte is removed.
Stripped(q) == [k \in 1..Len(q) |-> PopBack(q[k])]

\* With push = false the messages returned so far by receive(), followed by
\* those in the buffer, are the messages accepted from the transceiver, each
\* once and in the order of arrival.
C29_Logged ==
    (recvLog.on /\ ~push) =>
        /\ Contents(recvLog.returned \o m_receive) = Stripped(recvLog.arrived)
        /\ recvLog.delivered = <<>>

\* A receive() returns the whole buffer and leaves it empty.
C29_Step ==
    (recvLog.on /\ recvLog'.returned # recvLog.returned) =>
        /\ recvLog'.returned = recvLog.returned \o m_receive
        /\ m_receive' = <<>>
        /\ recvLog'.arrived = recvLog.arrived

\* C29: with push = false, under any interleaving of the manager thread
\* with calls of receive(), every non-empty message accepted from the
\* transceiver is returned by exactly one receive() call, the messages are
\* returned in arrival order, and each receive() leaves the buffer empty.
C29_PullExactlyOnce == []C29_Logged /\ [][C29_Step]_vars

\* C29 witness: two different messages arrived; the first was returned by a
\* receive() before the second arrived, which is in the buffer.
C29_Witness ==
    /\ recvLog.on
    /\ ~push
    /\ Len(recvLog.arrived) = 2
    /\ recvLog.arrived[1] # recvLog.arrived[2]
    /\ Len(recvLog.returned) = 1
    /\ Len(m_receive) = 1
    /\ m_receive[1].content # recvLog.returned[1].content

\* With push = true the messages passed to node.receive are the messages
\* accepted from the transceiver, each once and in order, and the pull
\* buffer is empty.
C30_Pushed ==
    (recvLog.on /\ push) =>
        /\ Contents(recvLog.delivered) = Stripped(recvLog.arrived)
        /\ m_receive = <<>>
        /\ recvLog.returned = <<>>

\* The receive part of one iteration: a result of empty content delivers
\* and buffers nothing; a non-empty one loses its last byte and is passed
\* to node.receive (push) or buffered (pull) in this very iteration.
C30_Step ==
    (recvLog.on /\ ReceiveCall) =>
        /\ call'.env = <<>> =>
              /\ m_receive' = m_receive
              /\ recvLog' = recvLog
              /\ call'.msg = NoMsg
        /\ call'.env # <<>> =>
              /\ call'.msg.content = PopBack(call'.env)
              /\ recvLog'.arrived = Append(recvLog.arrived, call'.env)
              /\ push => /\ recvLog'.delivered =
                                Append(recvLog.delivered, call'.msg)
                         /\ m_receive' = m_receive
              /\ ~push => /\ m_receive' = Append(m_receive, call'.msg)
                          /\ recvLog'.delivered = recvLog.delivered

\* C30: with push = true every non-empty message obtained from the
\* transceiver is passed to node.receive exactly once, in the same manage()
\* iteration, and the pull buffer stays empty; in both modes a result of
\* empty content is no message: nothing is delivered, buffered or stripped.
C30_PushDelivery == []C30_Pushed /\ [][C30_Step]_vars

\* C30 witness: with push = true two messages were passed to the node, one
\* of them of a single byte, and the last result had an empty content.
C30_Witness ==
    /\ recvLog.on
    /\ push
    /\ Len(recvLog.delivered) = 2
    /\ \E k \in 1..2 : recvLog.delivered[k].content = <<>>
    /\ \E k \in 1..2 : recvLog.delivered[k].content # <<>>
    /\ call.op = "receive"
    /\ call.env = <<>>

---------------------------------------------------------------------------
(* graph_spawner::component::net *)

\* The sequences over S of length at most n.
SeqsUpTo(S, n) == UNION {[1..k -> S] : k \in 0..n}

\* The inputs are read token by token with operator>>, which skips blanks and
\* line ends alike: a stream is the sequence of its tokens. The values of the
\* start column and the default start are counted in halves of a time unit.
TokenValues == {1, 3}

\* The declarations of tags::node_attributes tried.
AttrChoices == {<<"a">>, <<"a", "b">>, <<"a", "start">>, <<"start", "a">>}

\* The values of tags::start tried, in halves; -1 stands for no tags::start.
StartChoices == {-1, 0, 3, 4}

\* The tags of a declaration.
Tags(as) == {as[i] : i \in 1..Len(as)}

\* The conversion of a non-negative real to size_t, on halves.
ToSizeT(h) == (h \div 2) * 2

\* common::get_or<tags::start>(t, 0)
GetOrStart(s) == IF s < 0 THEN 0 ELSE s

\* A read_row that reports a row of which only the first values were read.
RECURSIVE read_row_Partial(_, _, _)
read_row_Partial(is, r, k) ==
    IF k > Len(attrs) THEN [ok |-> TRUE, is |-> is, row |-> r]
    ELSE IF is = <<>> THEN [ok |-> k > 1, is |-> is, row |-> r]
    ELSE read_row_Partial(Tail(is), [r EXCEPT ![attrs[k]] = Head(is)], k + 1)

\* net::read_row from the k-th declared attribute on: the values are
\* extracted into the row in declaration order; the first failed extraction
\* ends the row with false.
RECURSIVE read_row(_, _, _)
read_row(is, r, k) ==
    IF k > Len(attrs) THEN [ok |-> TRUE, is |-> is, row |-> r]
    ELSE IF is = <<>> THEN [ok |-> FALSE, is |-> is, row |-> r]
    ELSE read_row(Tail(is), [r EXCEPT ![attrs[k]] = Head(is)], k + 1)

\* net::push_time: the row itself when a start attribute is declared, else
\* the row with a start equal to m_start appended.
push_time(r) ==
    IF "start" \in Tags(attrs) THEN r
    ELSE [t \in Tags(attrs) \cup {"start"} |->
            IF t = "start" THEN m_start ELSE r[t]]

\* net::read_arc: two extractions, then one test of the stream.
read_arc(is) ==
    IF Len(is) >= 2
    THEN [ok |-> TRUE, is |-> Tail(Tail(is)), first |-> is[1],
          second |-> is[2]]
    ELSE [ok |-> FALSE, is |-> <<>>, first |-> 0, second |-> 0]

\* A connect call made on the node `to` with the node `from` as argument.
connect_Reversed(l, from, to) == Append(l, <<to, from>>)

\* node_at(from).connect(&node_at(to))
connect(l, from, to) == Append(l, <<from, to>>)

\* The state on entry to the body of the constructor of the net: the members
\* are initialised, nothing is read yet. The arcs name nodes that the nodes
\* input creates (uids are given in creation order, from 0).
InitGraph ==
    /\ attrs \in AttrChoices
    /\ startInit \in StartChoices
    /\ m_start = ToSizeT(GetOrStart(startInit))
    /\ nodesInput \in SeqsUpTo(TokenValues, MaxNodeTokens)
    /\ arcsInput \in SeqsUpTo(0..(Len(nodesInput) \div Len(attrs) - 1),
                              MaxArcTokens)
    /\ m_nodesstream = nodesInput
    /\ m_arcsstream = arcsInput
    /\ row = [t \in Tags(attrs) |-> 0]
    /\ nodes = <<>>
    /\ links = <<>>
    /\ gpc = "nodes"
    /\ IdleOs
    /\ IdleLg
    /\ IdlePl
    /\ IdleSq
    /\ IdleSc
    /\ IdleNw
    /\ IdleTr
    /\ IdleSt
    /\ IdleAr
    /\ IdleCx
    /\ IdleAg
    /\ IdleGd

\* One iteration of the loop of net::read_nodes.
ReadNode ==
    /\ gpc = "nodes"
    /\ LET r == read_row(m_nodesstream, row, 1)
       IN  /\ m_nodesstream' = r.is
           /\ row' = r.row
           /\ IF r.ok
              THEN /\ nodes' = Append(nodes, push_time(r.row))
                   /\ gpc' = "nodes"
              ELSE /\ nodes' = nodes
                   /\ gpc' = "arcs"
    /\ UNCHANGED <<attrs, startInit, m_start, m_arcsstream, links,
                   nodesInput, arcsInput>>
    /\ UNCHANGED notGs

\* One iteration of the loop of net::read_arcs.
ReadArc ==
    /\ gpc = "arcs"
    /\ LET a == read_arc(m_arcsstream)
       IN  /\ m_arcsstream' = a.is
           /\ IF a.ok
              THEN /\ links' = connect(links, a.first, a.second)
                   /\ gpc' = "arcs"
              ELSE /\ links' = links
                   /\ gpc' = "done"
    /\ UNCHANGED <<attrs, startInit, m_start, m_nodesstream, row, nodes,
                   nodesInput, arcsInput>>
    /\ UNCHANGED notGs

NextGraph ==
    \/ ReadNode
    \/ ReadArc

SpecGraph == InitGraph /\ [][NextGraph]_vars

---------------------------------------------------------------------------
(* Claims about graph_spawner *)

\* The number of complete rows of the nodes input.
Rows == Len(nodesInput) \div Len(attrs)

\* The j-th value of the i-th row of the nodes input.
Cell(i, j) == nodesInput[(i - 1) * Len(attrs) + j]

\* C6: read_nodes emplaces exactly one node per complete row of the nodes
\* input, in input order, the j-th value of the row assigned to the j-th
\* declared attribute; a trailing incomplete row creates no node.
C6_OneNodePerRow ==
    /\ Len(nodes) <= Rows
    /\ gpc \in {"arcs", "done"} => Len(nodes) = Rows
    /\ \A i \in 1..Len(nodes) :
          \A j \in 1..Len(attrs) : nodes[i][attrs[j]] = Cell(i, j)

\* C6 witness: a node of two different attribute values was read and a
\* trailing incomplete row was dropped.
C6_Witness ==
    /\ gpc = "done"
    /\ Len(attrs) = 2
    /\ Len(nodesInput) = Len(attrs) + 1
    /\ Len(nodes) = 1
    /\ nodes[1][attrs[1]] # nodes[1][attrs[2]]

\* C7: a node whose declared attributes hold no start column is emplaced
\* with start equal to the default start given at net initialisation (0
\* when none is given); a node with a start column keeps the value read.
C7_DefaultStart ==
    \A i \in 1..Len(nodes) :
        /\ "start" \in DOMAIN nodes[i]
        /\ "start" \notin Tags(attrs) =>
              nodes[i]["start"] = GetOrStart(startInit)
        /\ \A j \in 1..Len(attrs) :
              attrs[j] = "start" => nodes[i]["start"] = Cell(i, j)

\* The pairs of the arcs input, in input order.
ArcPairs ==
    [i \in 1..(Len(arcsInput) \div 2) |->
        <<arcsInput[2 * i - 1], arcsInput[2 * i]>>]

\* C8: each complete pair `from to` of the arcs input causes exactly one
\* connect call, on node from with node to as argument, none in the reverse
\* direction; arcs are processed only after all nodes have been emplaced; a
\* trailing lone `from` creates no link.
C8_DirectedLinks ==
    /\ Len(links) <= Len(ArcPairs)
    /\ links = SubSeq(ArcPairs, 1, Len(links))
    /\ gpc = "done" => links = ArcPairs
    /\ gpc = "nodes" => links = <<>>
    /\ gpc \in {"arcs", "done"} => (Len(nodes) = Rows /\ m_nodesstream = <<>>)

\* C8 witness: one link from a node to another, no link back, and a trailing
\* lone token dropped.
C8_Witness ==
    /\ gpc = "done"
    /\ Len(arcsInput) = 3
    /\ Len(links) = 1
    /\ links[1][1] # links[1][2]
    /\ Len(nodes) >= 2

---------------------------------------------------------------------------
(* sequence generators (option/sequence.hpp, second part of logger.hpp) *)

\* std::sort of a sequence of times, by insertion.
RECURSIVE Insert(_, _)
Insert(x, sorted) ==
    IF sorted = <<>> THEN <<x>>
    ELSE IF x <= Head(sorted) THEN <<x>> \o sorted
    ELSE <<Head(sorted)>> \o Insert(x, Tail(sorted))

RECURSIVE StdSort(_)
StdSort(q) == IF q = <<>> THEN <<>> ELSE Insert(Head(q), StdSort(Tail(q)))

\* sequence::multiple<N, E, true>: i events at time t
Multiple(t, i) == [Never EXCEPT !.kind = "multiple", !.t = t, !.i = i]

\* sequence::multiple<N, E, false>: the times drawn, sorted from the largest
\* to the smallest; the next event is the last of the vector
Independent(times) ==
    LET up == StdSort(times)
    IN  [Never EXCEPT !.kind = "independent",
                      !.pending = [k \in 1..Len(up) |-> up[Len(up) + 1 - k]]]

\* A list that keeps the times in the order declared.
List_Unsorted(times) == [Never EXCEPT !.kind = "list", !.pending = times]

\* sequence::list: the constructor sorts the times
List(times) == [Never EXCEPT !.kind = "list", !.pending = StdSort(times)]

\* sequence::periodic: first event s, period p, end time te, at most n events
Periodic(s, p, te, n) ==
    [Never EXCEPT !.kind = "periodic", !.t = s, !.p = p, !.te = te, !.n = n]

\* A next() of periodic that does not look at the end time.
schedule_next_NoEnd(g) ==
    CASE g.kind = "never" -> TIME_MAX
      [] g.kind = "multiple" -> IF g.i > 0 THEN g.t ELSE TIME_MAX
      [] g.kind = "list" ->
            IF g.i < Len(g.pending) THEN g.pending[g.i + 1] ELSE TIME_MAX
      [] g.kind = "periodic" -> IF g.i < g.n THEN g.t ELSE TIME_MAX
      [] g.kind = "independent" ->
            IF g.pending = <<>> THEN TIME_MAX ELSE Back(g.pending)

\* next() of the generator g
schedule_next(g) ==
    CASE g.kind = "never" -> TIME_MAX
      [] g.kind = "multiple" -> IF g.i > 0 THEN g.t ELSE TIME_MAX
      [] g.kind = "list" ->
            IF g.i < Len(g.pending) THEN g.pending[g.i + 1] ELSE TIME_MAX
      [] g.kind = "periodic" ->
            IF g.i < g.n /\ g.t <= g.te THEN g.t ELSE TIME_MAX
      [] g.kind = "independent" ->
            IF g.pending = <<>> THEN TIME_MAX ELSE Back(g.pending)

\* A step that leaves the generator where it was.
schedule_step_None(g) == g

\* A step that counts the event and leaves its time where it was.
schedule_step_NoAdvance(g) == [g EXCEPT !.i = @ + 1]

\* step() of the generator g
schedule_step(g) ==
    CASE g.kind = "never" -> g
      [] g.kind = "multiple" -> IF g.i > 0 THEN [g EXCEPT !.i = @ - 1] ELSE g
      [] g.kind = "list" -> [g EXCEPT !.i = @ + 1]
      [] g.kind = "periodic" -> [g EXCEPT !.i = @ + 1, !.t = @ + g.p]
      [] g.kind = "independent" ->
            IF g.pending = <<>> THEN g ELSE [g EXCEPT !.pending = PopBack(@)]

---------------------------------------------------------------------------
(* logger::component::net *)

Times == 0..MaxTime

\* The log schedules tried, as constructed from the initialisation values.
Schedules ==
    {Never}
    \cup {Multiple(t, i) : t \in Times, i \in 0..MaxEvents}
    \cup {List(q) : q \in SeqsUpTo(Times, MaxEvents)}
    \cup {Periodic(s, p, te, n) : s \in {0, 1}, p \in {0, 1, 2},
                                  te \in {2, TIME_MAX}, n \in 0..MaxEvents}

\* The pending event times of the parent net: any times, in order.
ParentQueues == {StdSort(q) : q \in SeqsUpTo(Times, MaxEvents)}

\* The lines of the log stream.
Preamble == [kind |-> "preamble", time |-> 0]
Header == [kind |-> "header", time |-> 0]
Footer == [kind |-> "footer", time |-> 0]
DataLine(t) == [kind |-> "data", time |-> t]

\* P::net::next()
parent_next == IF parentQueue = <<>> THEN TIME_MAX ELSE Head(parentQueue)

\* P::net::update(): the parent executes its next event, if any.
parent_update == IF parentQueue = <<>> THEN <<>> ELSE Tail(parentQueue)

\* A destructor that writes no export end section.
WriteFooter_None(stream) == stream

\* ~net(): the export end section
WriteFooter(stream) == Append(stream, Footer)

\* The state after the member initialisers of net(t): the schedule is built,
\* nothing is written yet.
InitLogger ==
    /\ lphase = "unborn"
    /\ m_stream = <<>>
    /\ m_schedule \in Schedules
    /\ scheduleInit = m_schedule
    /\ parentQueue \in ParentQueues
    /\ consumed = <<>>
    /\ lastUpdate = "none"
    /\ IdleOs
    /\ IdleGs
    /\ IdlePl
    /\ IdleSq
    /\ IdleSc
    /\ IdleNw
    /\ IdleTr
    /\ IdleSt
    /\ IdleAr
    /\ IdleCx
    /\ IdleAg
    /\ IdleGd

\* The body of net(t): the start section with the parameters, then the line
\* naming the columns.
Construct ==
    /\ lphase = "unborn"
    /\ lphase' = "live"
    /\ m_stream' = m_stream \o <<Preamble, Header>>
    /\ UNCHANGED <<m_schedule, parentQueue, scheduleInit, consumed,
                   lastUpdate>>
    /\ UNCHANGED notLg

\* A next() that looks at the log schedule only.
net_next_ScheduleOnly == schedule_next(m_schedule)

\* net::next()
net_next == Min(schedule_next(m_schedule), parent_next)

\* An update() that writes the row first when a log event and a parent event
\* have the same time.
Update_RowOnTie ==
    /\ lphase = "live"
    /\ IF schedule_next(m_schedule) <= parent_next
          /\ schedule_next(m_schedule) < TIME_MAX
       THEN /\ m_stream' = Append(m_stream,
                                  DataLine(schedule_next(m_schedule)))
            /\ m_schedule' = schedule_step(m_schedule)
            /\ consumed' = Append(consumed, schedule_next(m_schedule))
            /\ lastUpdate' = "row"
            /\ UNCHANGED parentQueue
       ELSE /\ parentQueue' = parent_update
            /\ lastUpdate' = "parent"
            /\ UNCHANGED <<m_stream, m_schedule, consumed>>
    /\ UNCHANGED <<lphase, scheduleInit>>
    /\ UNCHANGED notLg

\* net::update()
Update ==
    /\ lphase = "live"
    /\ IF schedule_next(m_schedule) < parent_next
       THEN /\ m_stream' = Append(m_stream,
                                  DataLine(schedule_next(m_schedule)))
            /\ m_schedule' = schedule_step(m_schedule)
            /\ consumed' = Append(consumed, schedule_next(m_schedule))
            /\ lastUpdate' = "row"
            /\ UNCHANGED parentQueue
       ELSE /\ parentQueue' = parent_update
            /\ lastUpdate' = "parent"
            /\ UNCHANGED <<m_stream, m_schedule, consumed>>
    /\ UNCHANGED <<lphase, scheduleInit>>
    /\ UNCHANGED notLg

\* ~net()
Destruct ==
    /\ lphase = "live"
    /\ lphase' = "dead"
    /\ m_stream' = WriteFooter(m_stream)
    /\ UNCHANGED <<m_schedule, parentQueue, scheduleInit, consumed,
                   lastUpdate>>
    /\ UNCHANGED notLg

NextLogger ==
    \/ Construct
    \/ Update
    \/ Destruct

SpecLogger == InitLogger /\ [][NextLogger]_vars

---------------------------------------------------------------------------
(* Claims about logger::net *)

\* The times of the data lines of a stream, in order.
DataTimes(stream) ==
    LET d == SelectSeq(stream, LAMBDA l : l.kind = "data")
    IN  [k \in 1..Len(d) |-> d[k].time]

\* The events of a schedule as constructed, by its declaration: no event; i
\* times t; the listed times in increasing order; s + k*p for the k < n
\* with s + k*p <= te.
Events(g) ==
    CASE g.kind = "never" -> <<>>
      [] g.kind = "multiple" -> [k \in 1..g.i |-> g.t]
      [] g.kind = "list" -> g.pending
      [] g.kind = "independent" ->
            [k \in 1..Len(g.pending) |-> g.pending[Len(g.pending) + 1 - k]]
      [] g.kind = "periodic" ->
            LET count == IF g.t > g.te THEN 0
                         ELSE IF g.p = 0 THEN g.n
                         ELSE Min(g.n, (g.te - g.t) \div g.p + 1)
            IN  [k \in 1..count |-> g.t + (k - 1) * g.p]

NonDecreasing(q) == \A k \in 1..(Len(q) - 1) : q[k] <= q[k + 1]

C10_StreamOrder ==
    LET n == Len(m_stream)
        body(last) == \A k \in 3..last : m_stream[k].kind = "data"
    IN  /\ lphase = "unborn" => m_stream = <<>>
        /\ lphase = "live" =>
              /\ n >= 2
              /\ m_stream[1] = Preamble
              /\ m_stream[2] = Header
              /\ body(n)
        /\ lphase = "dead" =>
              /\ n >= 3
              /\ m_stream[1] = Preamble
              /\ m_stream[2] = Header
              /\ body(n - 1)
              /\ m_stream[n] = Footer

\* C10 witness: a complete stream with one data line.
C10_Witness ==
    /\ lphase = "dead"
    /\ Len(m_stream) = 4
    /\ m_stream[3].kind = "data"

\* The times of the events still to come: the events of the log schedule
\* not stepped over yet and the pending events of the parent net.
PendingTimes ==
    LET ev == Events(scheduleInit)
    IN  {ev[k] : k \in (Len(consumed) + 1)..Len(ev)}
        \cup {parentQueue[k] : k \in 1..Len(parentQueue)}

\* next() is the earliest of the events still to come, TIME_MAX when none.
C11_NextIsEarliest ==
    /\ net_next = Min(schedule_next(m_schedule), parent_next)
    /\ \A t \in PendingTimes : net_next <= t
    /\ net_next \in PendingTimes \cup {TIME_MAX}
    /\ PendingTimes = {} => net_next = TIME_MAX

\* What an update() step executes: a log event (a data line is written and
\* the schedule stepped), a parent event (taken off the parent's queue), or
\* nothing; an event executed carries the time next() gave before the step.
C11_Steps ==
    (lphase = "live" /\ lphase' = "live") =>
        \/ /\ m_stream' = Append(m_stream, DataLine(net_next))
           /\ consumed' = Append(consumed, net_next)
           /\ parentQueue' = parentQueue
           /\ net_next < TIME_MAX
        \/ /\ parentQueue # <<>>
           /\ Head(parentQueue) = net_next
           /\ parentQueue' = Tail(parentQueue)
           /\ m_stream' = m_stream /\ m_schedule' = m_schedule
        \/ /\ net_next = TIME_MAX
           /\ UNCHANGED <<lphase, m_stream, m_schedule, parentQueue,
                          scheduleInit, consumed>>

\* C11: in every state, also right after an update(), next() is the minimum
\* of the log schedule's next time and the parent's next(); the event that
\* update() executes has the time next() returned just before.
C11_NextIsMin == []C11_NextIsEarliest /\ [][C11_Steps]_vars

\* C11 witness: after a log event was executed, the log schedule and the
\* parent net have their next events at the same time.
C11_Witness ==
    /\ lphase = "live"
    /\ consumed # <<>>
    /\ parentQueue # <<>>
    /\ schedule_next(m_schedule) = parent_next


\* The times of the parent events still pending.
ParentPending == {parentQueue[k] : k \in 1..Len(parentQueue)}

\* What one update() does, by the times of the two next events before it:
\* either one row is written and the log schedule stepped, the parent left
\* alone; or the parent is updated, no row written, the schedule left alone.
C24_Step ==
    (lphase = "live" /\ lphase' = "live") =>
        LET ts == schedule_next(m_schedule)
            tp == IF parentQueue = <<>> THEN TIME_MAX ELSE parentQueue[1]
            rowWritten ==
                   /\ Len(m_stream') = Len(m_stream) + 1
                   /\ Back(m_stream') = DataLine(ts)
                   /\ PopBack(m_stream') = m_stream
                   /\ m_schedule' # m_schedule
                   /\ parentQueue' = parentQueue
                   /\ lastUpdate' = "row"
            parentUpdated ==
                      /\ m_stream' = m_stream
                      /\ m_schedule' = m_schedule
                      /\ lastUpdate' = "parent"
                      /\ \/ parentQueue = <<>> /\ parentQueue' = <<>>
                         \/ parentQueue # <<>> /\ parentQueue' = Tail(parentQueue)
        IN  /\ ts < tp => rowWritten
            /\ ts >= tp => parentUpdated
            /\ ~(rowWritten /\ parentUpdated)

\* A row of time T is in the stream only if no parent event of time <= T is
\* still to be executed.
C24_RowsAfterParent ==
    \A T \in {DataTimes(m_stream)[k] : k \in 1..Len(DataTimes(m_stream))} :
        \A t \in ParentPending : t > T

\* C24: update() does exactly one of two things: with the log schedule's
\* next time strictly smaller than the parent's next() it writes one row and
\* steps the log schedule, without the parent's update; otherwise it calls
\* the parent's update, writes no row and does not step the schedule. On
\* equal times the parent event runs first, and a row of time T is written
\* only after every parent event of time <= T.
C24_UpdateEitherOr == [][C24_Step]_vars /\ []C24_RowsAfterParent

\* C24 witness: a row was written, and now the next log event and the two
\* parent events still pending have the same time.
C24_Witness ==
    /\ lphase = "live"
    /\ lastUpdate = "row"
    /\ Len(parentQueue) = 2
    /\ parentQueue[1] = parentQueue[2]
    /\ schedule_next(m_schedule) = parentQueue[1]

---------------------------------------------------------------------------
(* logger::net::data_puller: the row data pulled from the nodes *)

\* The values a node's storage holds for the aggregated tag.
StorageValues == {1, 2}

\* An aggregator is taken by what it has been given: how many times each
\* value was inserted. tuple_type{} is the aggregator given nothing.
EmptyAggregator == [v \in StorageValues |-> 0]

\* aggregator_insert_impl: insert of the value of one node
aggregator_insert_impl(a, v) == [a EXCEPT ![v] = @ + 1]

\* aggregator_add_impl: a += t
aggregator_add_impl(a, t) == [v \in StorageValues |-> a[v] + t[v]]

\* A merging loop that stops one thread early.
MergeBound_OneLess == m_threads - 1

\* The bound of the merging loop: for (i = 0; i < m_threads; ++i)
MergeBound == m_threads

InitPuller ==
    /\ parallel \in BOOLEAN
    /\ m_threads \in 1..MaxThreads
    /\ storage \in SeqsUpTo(StorageValues, MaxNodes)
    /\ thread_aggregators = <<>>
    /\ m_aggregators = EmptyAggregator
    /\ todo = {}
    /\ pullIdx = 0
    /\ pullpc = "start"
    /\ insertedBy = [i \in 1..Len(storage) |-> {}]
    /\ IdleOs
    /\ IdleGs
    /\ IdleLg
    /\ IdleSq
    /\ IdleSc
    /\ IdleNw
    /\ IdleTr
    /\ IdleSt
    /\ IdleAr
    /\ IdleCx
    /\ IdleAg
    /\ IdleGd

\* Entry of data_puller: the choice between the two ways.
PullEnter ==
    /\ pullpc = "start"
    /\ IF parallel = FALSE \/ m_threads = 1
       THEN /\ pullpc' = "sequential"
            /\ pullIdx' = 1
            /\ UNCHANGED <<thread_aggregators, todo>>
       ELSE /\ pullpc' = "parallel"
            /\ thread_aggregators' = [t \in 1..m_threads |-> EmptyAggregator]
            /\ todo' = 1..Len(storage)
            /\ UNCHANGED pullIdx
    /\ UNCHANGED <<parallel, m_threads, storage, m_aggregators, insertedBy>>
    /\ UNCHANGED notPl

\* One iteration of the sequential loop over the nodes.
PullSequential ==
    /\ pullpc = "sequential"
    /\ IF pullIdx <= Len(storage)
       THEN /\ m_aggregators' =
                  aggregator_insert_impl(m_aggregators, storage[pullIdx])
            /\ pullIdx' = pullIdx + 1
            /\ UNCHANGED pullpc
       ELSE /\ pullpc' = "done"
            /\ UNCHANGED <<m_aggregators, pullIdx>>
    /\ UNCHANGED <<parallel, m_threads, storage, thread_aggregators, todo,
                   insertedBy>>
    /\ UNCHANGED notPl

\* One call of the body of parallel_for: thread t is given the index i and
\* inserts the node into its own aggregator.
PullParallel(t) ==
    /\ pullpc = "parallel"
    /\ \E i \in todo :
          /\ thread_aggregators' =
                [thread_aggregators EXCEPT
                    ![t] = aggregator_insert_impl(@, storage[i])]
          /\ todo' = todo \ {i}
          /\ insertedBy' = [insertedBy EXCEPT ![i] = @ \cup {t}]
    /\ UNCHANGED <<parallel, m_threads, storage, m_aggregators, pullIdx,
                   pullpc>>
    /\ UNCHANGED notPl

\* parallel_for returns when every index has been handled.
PullJoin ==
    /\ pullpc = "parallel"
    /\ todo = {}
    /\ pullpc' = "merge"
    /\ pullIdx' = 1
    /\ UNCHANGED <<parallel, m_threads, storage, thread_aggregators,
                   m_aggregators, todo, insertedBy>>
    /\ UNCHANGED notPl

\* One iteration of the loop merging the per-thread aggregators.
PullMerge ==
    /\ pullpc = "merge"
    /\ IF pullIdx <= MergeBound
       THEN /\ m_aggregators' =
                  aggregator_add_impl(m_aggregators,
                                      thread_aggregators[pullIdx])
            /\ pullIdx' = pullIdx + 1
            /\ UNCHANGED pullpc
       ELSE /\ pullpc' = "done"
            /\ UNCHANGED <<m_aggregators, pullIdx>>
    /\ UNCHANGED <<parallel, m_threads, storage, thread_aggregators, todo,
                   insertedBy>>
    /\ UNCHANGED notPl

NextPuller ==
    \/ PullEnter
    \/ PullSequential
    \/ \E t \in 1..m_threads : PullParallel(t)
    \/ PullJoin
    \/ PullMerge

SpecPuller == InitPuller /\ [][NextPuller]_vars

---------------------------------------------------------------------------
(* Claims about data_puller *)

\* What the sequential loop gives on the first k nodes.
RECURSIVE SequentialPull(_)
SequentialPull(k) ==
    IF k = 0 THEN EmptyAggregator
    ELSE aggregator_insert_impl(SequentialPull(k - 1), storage[k])

\* The number of values an aggregator was given.
Inserted(a) == a[1] + a[2]

---------------------------------------------------------------------------
(* sequence::merge *)

\* The sub-sequences merged, as constructed from the initialisation values.
SubGenerators ==
    {Never}
    \cup {Multiple(1, i) : i \in 0..MaxEvents}
    \cup {Independent(q) : q \in SeqsUpTo({0, 2}, MaxEvents)}
    \cup {List(q) : q \in SeqsUpTo({1, 2}, MaxEvents)}
    \cup {Periodic(s, p, te, n) : s \in {0, 1}, p \in {0, 1},
                                  te \in {2, TIME_MAX}, n \in 0..MaxEvents}

\* The calls of operator() followed: enough to pass the end of two
\* sub-sequences.
MaxSteps == 2 * MaxEvents + 1

\* An empty() of periodic that looks at the count of events only.
schedule_empty_CountOnly(g) ==
    CASE g.kind = "never" -> TRUE
      [] g.kind = "multiple" -> g.i = 0
      [] g.kind = "list" -> g.i >= Len(g.pending)
      [] g.kind = "periodic" -> g.i >= g.n
      [] g.kind = "independent" -> g.pending = <<>>

\* empty() of the generator g
schedule_empty(g) ==
    CASE g.kind = "never" -> TRUE
      [] g.kind = "multiple" -> g.i = 0
      [] g.kind = "list" -> g.i >= Len(g.pending)
      [] g.kind = "periodic" -> g.i >= g.n \/ g.t > g.te
      [] g.kind = "independent" -> g.pending = <<>>

\* merge::set_next: the smallest next() of the sub-sequences. merge<> is
\* never and merge<S> is S, whose next() stands for m_next.
set_next(gs) ==
    IF gs = <<>> THEN TIME_MAX
    ELSE LET v == [k \in 1..Len(gs) |-> schedule_next(gs[k])]
         IN  CHOOSE x \in {v[k] : k \in 1..Len(gs)} :
                \A k \in 1..Len(gs) : x <= v[k]

\* A step of the last sub-sequence whose next event is the next of the merge.
RECURSIVE step_from_Last(_, _, _)
step_from_Last(gs, i, mnext) ==
    IF i >= Len(gs) THEN [gs EXCEPT ![Len(gs)] = schedule_step(@)]
    ELSE IF \A k \in (i + 1)..Len(gs) : schedule_next(gs[k]) # mnext
         THEN [gs EXCEPT ![i] = schedule_step(@)]
         ELSE step_from_Last(gs, i + 1, mnext)

\* A step over every sub-sequence whose next event is the next of the merge.
step_All(gs, i, mnext) ==
    [k \in 1..Len(gs) |->
        IF schedule_next(gs[k]) = mnext THEN schedule_step(gs[k]) ELSE gs[k]]

\* merge::step(g, index_sequence<i, ...>): the first sub-sequence from the
\* i-th on whose next event is m_next steps; the last one steps unasked.
RECURSIVE step_from(_, _, _)
step_from(gs, i, mnext) ==
    IF i >= Len(gs) \/ schedule_next(gs[i]) = mnext
    THEN [gs EXCEPT ![i] = schedule_step(@)]
    ELSE step_from(gs, i + 1, mnext)

\* merge::step before set_next; never::step for merge<>.
merge_step(gs, mnext) == IF gs = <<>> THEN gs ELSE step_from(gs, 1, mnext)

InitSeq ==
    /\ m_generators \in SeqsUpTo(SubGenerators, 2)
    /\ m_next = set_next(m_generators)
    /\ generatorsInit = m_generators
    /\ produced = <<>>
    /\ IdleOs
    /\ IdleGs
    /\ IdleLg
    /\ IdlePl
    /\ IdleSc
    /\ IdleNw
    /\ IdleTr
    /\ IdleSt
    /\ IdleAr
    /\ IdleCx
    /\ IdleAg
    /\ IdleGd

\* merge::operator(): nt = next(); step(g); return nt
MergeCall ==
    /\ Len(produced) < MaxSteps
    /\ m_generators' = merge_step(m_generators, m_next)
    /\ m_next' = set_next(m_generators')
    /\ produced' = Append(produced, m_next)
    /\ UNCHANGED generatorsInit
    /\ UNCHANGED notSq

NextSeq == MergeCall

SpecSeq == InitSeq /\ [][NextSeq]_vars

---------------------------------------------------------------------------
(* Claims about the sequence generators *)

\* C13: every generator (never, multiple, list, periodic of period >= 0,
\* merge) produces its events in non-decreasing order: no step makes next()
\* smaller, and the values returned do not decrease.
C13_NonDecreasing ==
    [][m_next' >= m_next /\ NonDecreasing(produced')]_vars

\* C13 witness: a list declared with two different times has produced both
\* and then the time of no event.
C13_Witness ==
    /\ Len(generatorsInit) = 1
    /\ generatorsInit[1].kind = "list"
    /\ Len(produced) = 3
    /\ produced[1] < produced[2]
    /\ produced[3] = TIME_MAX

\* All the events of the sub-sequences as constructed, in increasing order.
RECURSIVE AllEvents(_)
AllEvents(gs) ==
    IF gs = <<>> THEN <<>>
    ELSE Events(Head(gs)) \o AllEvents(Tail(gs))

---------------------------------------------------------------------------
(* Rounds of two devices scheduled by sequence::periodic *)

\* The uids of the two devices.
Devices == {1, 2}

\* The round schedules tried.
RoundSchedules ==
    {Periodic(s, p, te, n) : s \in {0, 1}, p \in {0, 1, 2},
                             te \in {2, TIME_MAX}, n \in 0..MaxEvents}

\* The device the net executes next: one whose next event is the earliest
\* of all, the smallest uid among those of equal time.
IsNextDevice(d) ==
    /\ schedule_next(devSchedule[d]) < TIME_MAX
    /\ \A e \in Devices :
          \/ schedule_next(devSchedule[d]) < schedule_next(devSchedule[e])
          \/ /\ schedule_next(devSchedule[d]) = schedule_next(devSchedule[e])
             /\ d <= e

InitSched ==
    /\ devSchedule \in [Devices -> RoundSchedules]
    /\ devScheduleInit = devSchedule
    /\ devRounds = [d \in Devices |-> 0]
    /\ IdleOs
    /\ IdleGs
    /\ IdleLg
    /\ IdlePl
    /\ IdleSq
    /\ IdleNw
    /\ IdleTr
    /\ IdleSt
    /\ IdleAr
    /\ IdleCx
    /\ IdleAg
    /\ IdleGd

\* The net executes a round of device d and the device is rescheduled at
\* the next event of its schedule.
RunRound(d) ==
    /\ IsNextDevice(d)
    /\ devRounds' = [devRounds EXCEPT ![d] = @ + 1]
    /\ devSchedule' = [devSchedule EXCEPT ![d] = schedule_step(@)]
    /\ UNCHANGED devScheduleInit
    /\ UNCHANGED notSc

NextSched == \E d \in Devices : RunRound(d)

SpecSched == InitSched /\ [][NextSched]_vars

---------------------------------------------------------------------------
(* Claims about the rounds of two devices *)

RoundsApart == IF devRounds[1] >= devRounds[2]
               THEN devRounds[1] - devRounds[2]
               ELSE devRounds[2] - devRounds[1]

\* The two round schedules have the same first event and the same period.
SameStartAndPeriod ==
    /\ devScheduleInit[1].t = devScheduleInit[2].t
    /\ devScheduleInit[1].p = devScheduleInit[2].p

\* C15 as stated: for two devices whose periodic round schedules have the
\* same first event and the same period, the numbers of rounds executed
\* differ by at most one after every prefix of the executed events.
C15_AsStated == SameStartAndPeriod => RoundsApart <= 1

\* C15: for two devices whose periodic round schedules have the same first
\* event, the same period greater than zero, the same end time and the same
\* maximum number of events, the numbers of rounds executed differ by at
\* most one after every prefix of the executed events.
C15_FairRounds ==
    (/\ SameStartAndPeriod
     /\ devScheduleInit[1].p > 0
     /\ devScheduleInit[1].te = devScheduleInit[2].te
     /\ devScheduleInit[1].n = devScheduleInit[2].n) => RoundsApart <= 1

\* C15 witness: two devices of the same schedule of period 1 have executed
\* two rounds each.
C15_Witness ==
    /\ SameStartAndPeriod
    /\ devScheduleInit[1] = devScheduleInit[2]
    /\ devScheduleInit[1].p = 1
    /\ devRounds[1] = 2
    /\ devRounds[2] = 2


---------------------------------------------------------------------------
(* Devices running gossip_min or sp_collection (coordination/collection.hpp) *)

\* The export of a device that has not run a round yet.
NoExport == [has |-> FALSE, x |-> 0, dist |-> 0, uid |-> 0, parent |-> 0]

\* Every device a neighbour of every other.
Complete(U) == [d \in U |-> U \ {d}]

\* The chain a - b - c.
Chain(a, b, c) == (a :> {b}) @@ (b :> {a, c}) @@ (c :> {b})

\* Three devices gossiping the minimum of the inputs 5, 2 and 9, given to
\* the devices in every order, fully connected or in a chain.
GossipScenarios ==
    {[program |-> "gossip_min", nbrs |-> n, value |-> v,
      distance |-> [d \in {1, 2, 3} |-> 0]] :
        n \in {Complete({1, 2, 3}), Chain(1, 2, 3)},
        v \in {f \in [{1, 2, 3} -> {2, 5, 9}] :
                  \A a, b \in {1, 2, 3} : a # b => f[a] # f[b]}}

\* Devices collecting towards the device of smallest distance, with a sum:
\* the chain 0 - 1 - 2 of distances 0, 1, 2 reporting 0, 3, 4; the devices 7
\* and 11, and 7, 11 and 13, of distances 0 or 1, reporting 1 each.
CollectionScenarios ==
    {[program |-> "sp_collection", nbrs |-> Chain(0, 1, 2),
      value |-> (0 :> 0) @@ (1 :> 3) @@ (2 :> 4),
      distance |-> (0 :> 0) @@ (1 :> 1) @@ (2 :> 2)]}
    \cup {[program |-> "sp_collection", nbrs |-> Complete(U),
           value |-> [d \in U |-> 1], distance |-> dist] :
             U \in {{7, 11}}, dist \in [{7, 11} -> {0, 1}]}
    \cup {[program |-> "sp_collection", nbrs |-> Complete(U),
           value |-> [d \in U |-> 1], distance |-> dist] :
             U \in {{7, 11, 13}}, dist \in [{7, 11, 13} -> {0, 1}]}

Scenarios == GossipScenarios \cup CollectionScenarios

AllUids == {0, 1, 2, 3, 7, 11, 13}

\* fold_hood(node, call_point, min, x): the fold of the minimum over the
\* values heard, begun at the device's own entry
RECURSIVE fold_hood_min(_, _)
fold_hood_min(q, acc) ==
    IF q = <<>> THEN acc
    ELSE fold_hood_min(Tail(q), Min(acc, Head(q).export.x))

\* A gossip that looks at the device's own entry only.
gossip_OwnOnly(d) ==
    Min(IF export[d].has THEN export[d].x ELSE value[d], value[d])

\* gossip(node, call_point, value, min) = gossip_min: nbr with the field x
\* of the last results heard, the device's own previous result (value when
\* none) included; the result is accumulate(fold_hood(accumulate, x), value).
gossip(d) ==
    LET own == IF export[d].has THEN export[d].x ELSE value[d]
    IN  Min(fold_hood_min(context[d], own), value[d])

\* The order of the tuples (distance, uid).
TupleLess(a, b) == a[1] < b[1] \/ (a[1] = b[1] /\ a[2] < b[2])

\* min_hood(node, 0, make_tuple(nbr(distance), nbr(uid))): the smallest
\* tuple of the neighbourhood, the device's own tuple included
RECURSIVE min_hood(_, _)
min_hood(q, best) ==
    IF q = <<>> THEN best
    ELSE LET e == <<Head(q).export.dist, Head(q).export.uid>>
         IN  min_hood(Tail(q), IF TupleLess(e, best) THEN e ELSE best)

\* A parent that is the device itself.
sp_parent_Self(d) == d

\* A parent that is the first heard of the devices of smallest distance.
RECURSIVE first_hood(_, _)
first_hood(q, best) ==
    IF q = <<>> THEN best
    ELSE LET e == <<Head(q).export.dist, Head(q).export.uid>>
         IN  first_hood(Tail(q), IF e[1] < best[1] THEN e ELSE best)

sp_parent_FirstHeard(d) == first_hood(context[d], <<distance[d], d>>)[2]

\* device_t parent = get<1>(min_hood(...)) of sp_collection
sp_parent(d) == min_hood(context[d], <<distance[d], d>>)[2]

\* fold_hood(node, 0, +, mux(nbr(parent) == node.uid, x, null), value): the
\* sum of the device's value and of the last results of the neighbours whose
\* parent is the device; null is 0
RECURSIVE fold_hood_sum(_, _, _)
fold_hood_sum(q, d, acc) ==
    IF q = <<>> THEN acc
    ELSE fold_hood_sum(Tail(q), d,
            acc + IF Head(q).export.parent = d THEN Head(q).export.x ELSE 0)

\* sp_collection(node, call_point, distance, value, 0, +)
sp_collection(d) == fold_hood_sum(context[d], d, value[d])

\* The export a round of device d seals.
RoundExport(d) ==
    IF program = "gossip_min"
    THEN [NoExport EXCEPT !.has = TRUE, !.x = gossip(d)]
    ELSE [has |-> TRUE, x |-> sp_collection(d), dist |-> distance[d],
          uid |-> d, parent |-> sp_parent(d)]

\* The context of a device once the export exp of device d has arrived: the
\* older entry of d is replaced.
Insert_context(q, d, exp) ==
    Append(SelectSeq(q, LAMBDA e : e.from # d), [from |-> d, export |-> exp])

SetMin(S) == CHOOSE x \in S : \A y \in S : x <= y

InitNet ==
    /\ \E s \in Scenarios :
          /\ program = s.program
          /\ nbrs = s.nbrs
          /\ value = s.value
          /\ distance = s.distance
    /\ export = [d \in DOMAIN value |-> NoExport]
    /\ context = [d \in DOMAIN value |-> <<>>]
    /\ rounds = [d \in DOMAIN value |-> 0]
    /\ lockstep = TRUE
    /\ lastDevice = -1
    /\ IdleOs
    /\ IdleGs
    /\ IdleLg
    /\ IdlePl
    /\ IdleSq
    /\ IdleSc
    /\ IdleTr
    /\ IdleSt
    /\ IdleAr
    /\ IdleCx
    /\ IdleAg
    /\ IdleGd

\* A round of device d: the routine runs on the context, the export is
\* sealed and handed to the connector, which delivers it to the neighbours.
Round(d) ==
    /\ d \in DOMAIN value
    /\ export' = [export EXCEPT ![d] = RoundExport(d)]
    /\ context' = [e \in DOMAIN context |->
                      IF e \in nbrs[d]
                      THEN Insert_context(context[e], d, RoundExport(d))
                      ELSE context[e]]
    /\ rounds' = [rounds EXCEPT ![d] = Min(@ + 1, MaxRounds)]
    /\ lockstep' = (lockstep /\ rounds[d] = SetMin({rounds[e] : e \in DOMAIN rounds}))
    /\ lastDevice' = d
    /\ UNCHANGED <<program, nbrs, value, distance>>
    /\ UNCHANGED notNw

NextNet == \E d \in AllUids : Round(d)

SpecNet == InitNet /\ [][NextNet]_vars

\* Every device goes on executing rounds.
SpecNetFair == SpecNet /\ \A d \in AllUids : WF_vars(Round(d))


---------------------------------------------------------------------------
(* Claims about gossip_min and sp_collection *)

Uids == DOMAIN value

\* The smallest input of the network and the devices within k hops of a
\* device holding it.
GlobalMin == SetMin({value[d] : d \in Uids})

RECURSIVE Within(_, _)
Within(S, k) ==
    IF k = 0 THEN S
    ELSE Within(S \cup UNION {nbrs[e] : e \in S}, k - 1)

Hop(d) ==
    SetMin({k \in 0..Cardinality(Uids) :
               d \in Within({s \in Uids : value[s] = GlobalMin}, k)})

\* The scenario of the claim: 1, 2, 3 fully connected with inputs 5, 2, 9.
GossipOfThree ==
    /\ program = "gossip_min"
    /\ nbrs = Complete({1, 2, 3})
    /\ value = (1 :> 5) @@ (2 :> 2) @@ (3 :> 9)

\* The values a gossip round of d has before it: the input, the device's
\* previous result, the last results received.
GossipHeard(d) ==
    {value[d]}
    \cup (IF export[d].has THEN {export[d].x} ELSE {})
    \cup {context[d][k].export.x : k \in 1..Len(context[d])}

\* C16 as stated: once every device has executed two rounds, the three
\* results are 2.
C16_AsStated ==
    (GossipOfThree /\ \A d \in Uids : rounds[d] >= 2) =>
        \A d \in Uids : export[d].x = 2

\* A round of gossip_min gives the minimum of what the device has before it.
C16_Step ==
    (program = "gossip_min" /\ lastDevice' \in Uids) =>
        export'[lastDevice'].x = SetMin(GossipHeard(lastDevice'))

\* When no device runs a round ahead of another, a device has the smallest
\* input after (hop distance + 1) of its rounds, and keeps it.
C16_Reached ==
    (program = "gossip_min" /\ lockstep) =>
        \A d \in Uids : rounds[d] >= Hop(d) + 1 => export[d].x = GlobalMin

\* C16: a gossip_min round returns the minimum of the device's input and of
\* the last results received, its own previous result included; when the
\* devices run their rounds in lock-step (no device begins a round before
\* every device has completed the round before) and every export reaches
\* the neighbours, the smallest input is the result of a device after (hop
\* distance + 1) rounds: with 1, 2, 3 fully connected and inputs 5, 2, 9 the
\* three results are 2 after two rounds.
C16_GossipMin == []C16_Reached /\ [][C16_Step]_vars

\* C16 witness: the three devices of the claim have run two rounds each in
\* lock-step.
C16_Witness ==
    /\ GossipOfThree
    /\ lockstep
    /\ \A d \in Uids : rounds[d] = 2 /\ export[d].x = 2

\* The scenario of the claim: the chain 0 - 1 - 2 towards device 0.
CollectionChain ==
    /\ program = "sp_collection"
    /\ nbrs = Chain(0, 1, 2)

\* C17: on the chain 0 - 1 - 2 with device 0 of distance 0 and the devices 1
\* and 2 reporting 3 and 4, a sum accumulator gives device 0 the value 7
\* from some round on, for ever.
C17_Stabilises ==
    <>[](CollectionChain => (export[0].has /\ export[0].x = 7))

\* C17 witness: the chain with 7 collected by device 0 through device 1.
C17_Witness ==
    /\ CollectionChain
    /\ export[0].x = 7
    /\ export[1].x = 7 /\ export[1].parent = 0
    /\ export[2].x = 4 /\ export[2].parent = 1

\* The tuples (distance, uid) a round of d has before it: its own and those
\* of the last exports received.
TuplesHeard(d) ==
    {<<distance[d], d>>}
    \cup {<<context[d][k].export.dist, context[d][k].export.uid>> :
             k \in 1..Len(context[d])}

\* The two devices 7 and 11 with the same distance estimate.
PairOfEqualDistance ==
    /\ program = "sp_collection"
    /\ Uids = {7, 11}
    /\ distance[7] = distance[11]

\* What a round of sp_collection selects as parent.
C18_Step ==
    (program = "sp_collection" /\ lastDevice' \in Uids) =>
        LET d == lastDevice'
            p == export'[d].parent
        IN  /\ \E t \in TuplesHeard(d) :
                  /\ t[2] = p
                  /\ \A u \in TuplesHeard(d) :
                        t[1] < u[1] \/ (t[1] = u[1] /\ t[2] <= u[2])
            /\ (PairOfEqualDistance /\ (d = 7 \/ context[d] # <<>>)) => p = 7

\* C18: the parent selected by sp_collection is the uid of the smallest pair
\* (distance, uid) of the neighbourhood, so the smaller uid wins among equal
\* distances, in whatever order the exports arrived: the neighbours 7 and 11
\* of equal distance both select 7.
C18_ParentTieBreak == [][C18_Step]_vars

\* C18 witness: 7 and 11 of equal distance have both selected 7.
C18_Witness ==
    /\ PairOfEqualDistance
    /\ export[7].has /\ export[7].parent = 7
    /\ export[11].has /\ export[11].parent = 7


---------------------------------------------------------------------------
(* The trace frame of the collection routines *)

\* The call points of the exchange operations of each body, in call order:
\* sp_collection: nbr 0, nbr 1, nbr 2, min_hood 0, nbr 3, fold_hood 0;
\* mp_collection: nbr 0, nbr 1, fold_hood 1, sum_hood 1;
\* wmp_collection: nbr 0, sum_hood 0, nbr 1, nbr 2, fold_hood 2.
Body(r) ==
    CASE r = "sp_collection" -> <<0, 1, 2, 0, 3, 0>>
      [] r = "mp_collection" -> <<0, 1, 1, 1>>
      [] r = "wmp_collection" -> <<0, 0, 1, 2, 2>>

\* The stacks the routine is called under: none, one or two open frames.
CallerStacks == {<<>>, <<5>>, <<5, 6>>}

CallPoints == {1, 2}

\* internal::trace_call: the frame of call point cp is opened by the
\* constructor and closed by the destructor, at the end of the scope of
\* trace_caller, however the scope is left.
trace_call_enter(st, cp) == Append(st, cp)
trace_call_exit(st) == PopBack(st)

InitTrace ==
    /\ routine \in {"sp_collection", "mp_collection", "wmp_collection"}
    /\ call_point \in CallPoints
    /\ stack_trace \in CallerStacks
    /\ tracepc = "before"
    /\ opIdx = 1
    /\ failed = FALSE
    /\ stackBefore = stack_trace
    /\ framesSeen = <<>>
    /\ IdleOs
    /\ IdleGs
    /\ IdleLg
    /\ IdlePl
    /\ IdleSq
    /\ IdleSc
    /\ IdleNw
    /\ IdleSt
    /\ IdleAr
    /\ IdleCx
    /\ IdleAg
    /\ IdleGd

\* An entry that opens no frame, as of a routine without trace_caller.
TraceEnter_NoFrame ==
    /\ tracepc = "before"
    /\ tracepc' = "inside"
    /\ UNCHANGED <<routine, call_point, stack_trace, opIdx, failed,
                   stackBefore, framesSeen>>
    /\ UNCHANGED notTr

\* Entry of the routine: trace_caller is constructed.
TraceEnter ==
    /\ tracepc = "before"
    /\ stack_trace' = trace_call_enter(stack_trace, call_point)
    /\ tracepc' = "inside"
    /\ UNCHANGED <<routine, call_point, opIdx, failed, stackBefore,
                   framesSeen>>
    /\ UNCHANGED notTr

\* The next exchange operation of the body runs, or fails: the failure
\* leaves the routine through the destructor of trace_caller.
TraceOp(fails) ==
    /\ tracepc = "inside"
    /\ opIdx <= Len(Body(routine))
    /\ IF fails
       THEN /\ stack_trace' = trace_call_exit(stack_trace)
            /\ tracepc' = "after"
            /\ failed' = TRUE
            /\ UNCHANGED <<opIdx, framesSeen>>
       ELSE /\ framesSeen' = Append(framesSeen, stack_trace)
            /\ opIdx' = opIdx + 1
            /\ UNCHANGED <<stack_trace, tracepc, failed>>
    /\ UNCHANGED <<routine, call_point, stackBefore>>
    /\ UNCHANGED notTr

\* The routine returns.
TraceReturn ==
    /\ tracepc = "inside"
    /\ opIdx > Len(Body(routine))
    /\ stack_trace' = trace_call_exit(stack_trace)
    /\ tracepc' = "after"
    /\ UNCHANGED <<routine, call_point, opIdx, failed, stackBefore,
                   framesSeen>>
    /\ UNCHANGED notTr

NextTrace ==
    \/ TraceEnter
    \/ \E fails \in BOOLEAN : TraceOp(fails)
    \/ TraceReturn

SpecTrace == InitTrace /\ [][NextTrace]_vars

---------------------------------------------------------------------------
(* Claims about the trace frame *)

\* C19: sp_collection, mp_collection and wmp_collection open one frame for
\* their call point on entry and close it on every exit, return and failure
\* alike: after the call the stack is the one before it, and every exchange
\* operation of the body ran under the frame of the call point.
C19_FrameClosed ==
    /\ tracepc = "before" => stack_trace = stackBefore
    /\ tracepc = "inside" => stack_trace = Append(stackBefore, call_point)
    /\ tracepc = "after" =>
          /\ stack_trace = stackBefore
          /\ Len(stack_trace) = Len(stackBefore)
          /\ ~failed => Len(framesSeen) = Len(Body(routine))
    /\ \A k \in 1..Len(framesSeen) :
          framesSeen[k] = Append(stackBefore, call_point)

\* C19 witness: a call under two open frames has failed after three
\* operations and the stack is back.
C19_Witness ==
    /\ tracepc = "after"
    /\ failed
    /\ Len(framesSeen) = 3
    /\ Len(stackBefore) = 2
    /\ stack_trace = stackBefore


---------------------------------------------------------------------------
(* details::make_stream *)

\* The characters of a path: a letter and the two separators.
PathChars == {"a", "/", "\\"}

NoSink == [kind |-> "none", path |-> <<>>, owned |-> FALSE]

\* new std::ofstream(path), owned by the shared pointer
FileSink(path) == [kind |-> "file", path |-> path, owned |-> TRUE]

\* shared_ptr<O>(o, [] (void*) {}): the stream of the caller, or std::cout,
\* with a deleter that does nothing
GivenSink(which) == [kind |-> which, path |-> <<>>, owned |-> FALSE]

\* The process ended in s.back() of an empty string.
Aborted == [kind |-> "aborted", path |-> <<>>, owned |-> FALSE]

\* t.print(ss, underscore_tuple, skip_tags<name, output, plotter>)
print_underscore == netParams

\* The generated file name: directory, name and "_" if the name is not
\* empty, the parameters, ".txt".
GeneratedPath(s) ==
    s \o (IF Len(netName) > 0 THEN netName \o <<"_">> ELSE <<>>)
      \o print_underscore \o <<".txt">>

\* make_stream(std::string const& s, t). s.back() of an empty string is
\* undefined: the build may end the process, or read a byte that is or is
\* not a separator; ub names which.
make_stream_string(s, ub) ==
    IF s = <<>>
    THEN CASE ub = "abort" -> Aborted
           [] ub = "separator" -> FileSink(GeneratedPath(s))
           [] ub = "other" -> FileSink(s)
    ELSE IF Back(s) = "/" \/ Back(s) = "\\"
         THEN FileSink(GeneratedPath(s))
         ELSE FileSink(s)

\* make_stream(common::get_or<tags::output>(t, &std::cout), t)
make_stream(ub) ==
    CASE outputForm = "none" -> GivenSink("cout")
      [] outputForm = "pointer" -> GivenSink("given")
      [] outputForm = "cstring" -> make_stream_string(outputString, ub)
      [] outputForm = "string" -> make_stream_string(outputString, ub)

InitStream ==
    /\ outputForm \in {"none", "pointer", "string", "cstring"}
    /\ outputString \in
          IF outputForm \in {"string", "cstring"}
          THEN SeqsUpTo(PathChars, MaxPathLen) ELSE {<<>>}
    /\ netName \in {<<>>, <<"n">>}
    /\ hasPlotter \in BOOLEAN
    /\ netParams \in {<<>>, <<"seed-1">>}
    /\ sink = NoSink
    /\ streampc = "init"
    /\ closedByLogger = FALSE
    /\ IdleOs
    /\ IdleGs
    /\ IdleLg
    /\ IdlePl
    /\ IdleSq
    /\ IdleSc
    /\ IdleNw
    /\ IdleTr
    /\ IdleAr
    /\ IdleCx
    /\ IdleAg
    /\ IdleGd

\* The initialiser of m_stream in the constructor of the net.
MakeStream(ub) ==
    /\ streampc = "init"
    /\ (outputForm \in {"string", "cstring"} /\ outputString = <<>>)
          \/ ub = "other"
    /\ sink' = make_stream(ub)
    /\ streampc' = "made"
    /\ UNCHANGED <<outputForm, outputString, netName, hasPlotter, netParams,
                   closedByLogger>>
    /\ UNCHANGED notSt

\* The net is destroyed and m_stream with it: the deleter of the shared
\* pointer runs.
ReleaseStream ==
    /\ streampc = "made"
    /\ streampc' = "released"
    /\ closedByLogger' = sink.owned
    /\ UNCHANGED <<outputForm, outputString, netName, hasPlotter, netParams,
                   sink>>
    /\ UNCHANGED notSt

NextStream ==
    \/ \E ub \in {"abort", "separator", "other"} : MakeStream(ub)
    \/ ReleaseStream

SpecStream == InitStream /\ [][NextStream]_vars

---------------------------------------------------------------------------
(* Claims about make_stream *)

EndsWithSeparator(s) == s # <<>> /\ (Back(s) = "/" \/ Back(s) = "\\")

\* C20: the sink follows the form of tags::output: a string ending in / or \
\* is a directory and the file is directory + name and "_" (when the name is
\* not empty) + parameters + ".txt"; any other string is the file path; a
\* stream pointer is written to and never closed or destroyed by the logger;
\* without tags::output the sink is standard output.
C20_OutputSink ==
    streampc \in {"made", "released"} =>
        /\ outputForm = "none" => sink.kind = "cout" /\ ~closedByLogger
        /\ outputForm = "pointer" => sink.kind = "given" /\ ~closedByLogger
        /\ outputForm \in {"string", "cstring"} =>
              /\ sink.kind = "file"
              /\ sink.path =
                    IF EndsWithSeparator(outputString)
                    THEN outputString
                         \o (IF netName # <<>> THEN netName \o <<"_">>
                             ELSE <<>>)
                         \o netParams \o <<".txt">>
                    ELSE outputString

\* The same for every tags::output but the empty string.
C20_NonEmptyOutput ==
    (outputForm \in {"string", "cstring"} => outputString # <<>>) =>
        C20_OutputSink


---------------------------------------------------------------------------
(* Element-wise arithmetic of arrays. The operators are declared in       *)
(* lib/common/array.hpp; they are modelled after the uses and the values  *)
(* expected of them in the array tests. The elements drawn are small, so  *)
(* that every sum and product is representable in an int.                 *)

\* the size of the arrays of TEST(ArrayTest, Multiplication)
ArrayLen == 2

Elems == (0 - MaxElem)..MaxElem

Arrays == [1..ArrayLen -> Elems]

\* x + y of two arrays
array_add(x, y) == [i \in 1..Len(x) |-> x[i] + y[i]]

\* A subtraction with its operands exchanged.
array_sub_Reversed(x, y) == [i \in 1..Len(x) |-> y[i] - x[i]]

\* x - y of two arrays
array_sub(x, y) == [i \in 1..Len(x) |-> x[i] - y[i]]

\* x + k and k + x of an array and a scalar
array_add_scalar(x, k) == [i \in 1..Len(x) |-> x[i] + k]

scalar_add_array(k, x) == [i \in 1..Len(x) |-> k + x[i]]

\* x - k of an array and a scalar
array_sub_scalar(x, k) == [i \in 1..Len(x) |-> x[i] - k]

\* x * k and k * x of an array and a scalar
array_mul_scalar(x, k) == [i \in 1..Len(x) |-> x[i] * k]

scalar_mul_array(k, x) == [i \in 1..Len(x) |-> k * x[i]]

\* x * y of two arrays: the products of the elements, summed from the first
RECURSIVE dot_from(_, _, _)
dot_from(x, y, i) ==
    IF i > Len(x) THEN 0 ELSE x[i] * y[i] + dot_from(x, y, i + 1)

array_mul(x, y) == dot_from(x, y, 1)

\* x += y, x -= y, x += k, x -= k, x *= k: the variable x, element after
\* element, from the first
RECURSIVE assign_from(_, _, _, _)
assign_from(x, y, o, i) ==
    IF i > Len(x) THEN x
    ELSE LET e == CASE o = "+=" -> x[i] + y[i]
                    [] o = "-=" -> x[i] - y[i]
                    [] o = "+=k" -> x[i] + y
                    [] o = "-=k" -> x[i] - y
                    [] o = "*=k" -> x[i] * y
         IN  assign_from([x EXCEPT ![i] = e], y, o, i + 1)

array_assign(x, y, o) == assign_from(x, y, o, 1)

ArrayOps == {"u+v", "u-v", "u+k", "k+u", "u-k", "u*k", "k*u", "u*v",
             "+=", "-=", "+=k", "-=k", "*=k"}

array_eval(o) ==
    CASE o = "u+v" -> array_add(arr_u, arr_v)
      [] o = "u-v" -> array_sub(arr_u, arr_v)
      [] o = "u+k" -> array_add_scalar(arr_u, arr_k)
      [] o = "k+u" -> scalar_add_array(arr_k, arr_u)
      [] o = "u-k" -> array_sub_scalar(arr_u, arr_k)
      [] o = "u*k" -> array_mul_scalar(arr_u, arr_k)
      [] o = "k*u" -> scalar_mul_array(arr_k, arr_u)
      [] o = "u*v" -> array_mul(arr_u, arr_v)
      [] o \in {"+=", "-="} -> array_assign(arr_u, arr_v, o)
      [] OTHER -> array_assign(arr_u, arr_k, o)

InitArray ==
    /\ arr_u \in Arrays
    /\ arr_v \in Arrays
    /\ arr_k \in Elems
    /\ arr_op = "none"
    /\ arr_res = <<>>
    /\ IdleOs
    /\ IdleGs
    /\ IdleLg
    /\ IdlePl
    /\ IdleSq
    /\ IdleSc
    /\ IdleNw
    /\ IdleTr
    /\ IdleSt
    /\ IdleCx
    /\ IdleAg
    /\ IdleGd

\* One expression or statement of the tests, on the operands drawn.
ArrayOp(o) ==
    /\ arr_op = "none"
    /\ arr_op' = o
    /\ arr_res' = array_eval(o)
    /\ UNCHANGED <<arr_u, arr_v, arr_k>>
    /\ UNCHANGED notAr

NextArray == \E o \in ArrayOps : ArrayOp(o)

SpecArray == InitArray /\ [][NextArray]_vars

---------------------------------------------------------------------------
(* Claims about the arithmetic of arrays *)

\* The arrays that a sum or a difference of two operands can be.
WideArrays == [1..ArrayLen -> (0 - 2 * MaxElem)..(2 * MaxElem)]

\* The sum of f over the indices in S.
RECURSIVE SumOver(_, _)
SumOver(S, f) ==
    IF S = {} THEN 0
    ELSE LET i == CHOOSE j \in S : TRUE
         IN  f[i] + SumOver(S \ {i}, f)

---------------------------------------------------------------------------
(* The round engine: two devices a = 1 and b = 2, connected to each       *)
(* other, each with a period and a scheduler cursor. A round drains the   *)
(* mailbox into the context, evicts the stale entries, runs the program   *)
(* (which may fail), seals the export and offers it to the neighbour.     *)

CxDevices == {1, 2}

\* The periods of the rounds and the retain windows drawn.
CxPeriods == {2, 5}
RetainWindows == {1, 5}

NoEntry == -1

\* insert(uid, time, export): an older entry is replaced; the entry is
\* discarded if time < now - retain_window.
context_insert(c, uid, t, tnow) ==
    IF t < tnow - retain_window THEN c ELSE [c EXCEPT ![uid] = t]

\* The context once the envelopes of the mailbox q are recorded, in order.
\* The reception time is send_time plus the propagation delay, which is 0.
RECURSIVE drain(_, _, _)
drain(c, q, tnow) ==
    IF q = <<>> THEN c
    ELSE drain(context_insert(c, Head(q).sender, Head(q).send_time, tnow),
               Tail(q), tnow)

\* An eviction that keeps every entry.
collect_old_Keep(c, tnow) == c

\* collect_old(now): the entries whose time is stale are evicted.
collect_old(c, tnow) ==
    [u \in DOMAIN c |-> IF c[u] # NoEntry /\ c[u] < tnow - retain_window
                        THEN NoEntry ELSE c[u]]

\* The device the sequential scheduler pops: the earliest cursor, the
\* smaller uid among equal times.
CxIsNext(d) ==
    /\ cxLive[d]
    /\ \A e \in CxDevices \ {d} :
          cxLive[e] => \/ cursor[d] < cursor[e]
                       \/ (cursor[d] = cursor[e] /\ d < e)

InitCx ==
    /\ retain_window \in RetainWindows
    /\ cxLive = [d \in CxDevices |-> TRUE]
    /\ cursor = [d \in CxDevices |-> 0]
    /\ cxPeriod \in [CxDevices -> CxPeriods]
    /\ cxExport = [d \in CxDevices |-> -1]
    /\ cxContext = [d \in CxDevices |-> [u \in CxDevices \ {d} |-> NoEntry]]
    /\ mailbox = [d \in CxDevices |-> <<>>]
    /\ roundTime = [d \in CxDevices |-> -1]
    /\ lastHeard = [d \in CxDevices |-> [u \in CxDevices \ {d} |-> -1]]
    /\ lastRound = [n |-> 0, dev |-> 0, time |-> 0, failed |-> FALSE]
    /\ IdleOs
    /\ IdleGs
    /\ IdleLg
    /\ IdlePl
    /\ IdleSq
    /\ IdleSc
    /\ IdleNw
    /\ IdleTr
    /\ IdleSt
    /\ IdleAr
    /\ IdleAg
    /\ IdleGd

\* A round of device d that fails after the mailbox was drained: the round
\* is aborted, the prior export is retained, the device is rescheduled.
CxRound_FailClears(d, fails) ==
    /\ CxIsNext(d)
    /\ cursor[d] <= MaxClock
    /\ LET t == cursor[d]
           c == collect_old(drain(cxContext[d], mailbox[d], t), t)
       IN  /\ cxContext' = [cxContext EXCEPT ![d] = c]
           /\ lastHeard' = [lastHeard EXCEPT ![d] =
                 [u \in DOMAIN c |-> IF c[u] # NoEntry THEN c[u] ELSE @[u]]]
           /\ cxExport' = [cxExport EXCEPT ![d] = IF fails THEN -1 ELSE t]
           /\ mailbox' = [e \in CxDevices |->
                 IF e = d THEN <<>>
                 ELSE IF ~fails /\ cxLive[e]
                      THEN Append(mailbox[e], [sender |-> d, send_time |-> t])
                      ELSE mailbox[e]]
           /\ cursor' = [cursor EXCEPT ![d] = t + cxPeriod[d]]
           /\ roundTime' = [roundTime EXCEPT ![d] = t]
           /\ lastRound' = [n |-> lastRound.n + 1, dev |-> d, time |-> t,
                            failed |-> fails]
    /\ UNCHANGED <<retain_window, cxLive, cxPeriod>>
    /\ UNCHANGED notCx

\* A round of device d at the time of its cursor. fails: the program
\* faults, or a payload it projects does not decode.
CxRound(d, fails) ==
    /\ CxIsNext(d)
    /\ cursor[d] <= MaxClock
    /\ LET t == cursor[d]
           c == collect_old(drain(cxContext[d], mailbox[d], t), t)
       IN  /\ cxContext' = [cxContext EXCEPT ![d] = c]
           /\ lastHeard' = [lastHeard EXCEPT ![d] =
                 [u \in DOMAIN c |-> IF c[u] # NoEntry THEN c[u] ELSE @[u]]]
           /\ cxExport' = [cxExport EXCEPT ![d] = IF fails THEN @ ELSE t]
           /\ mailbox' = [e \in CxDevices |->
                 IF e = d THEN <<>>
                 ELSE IF ~fails /\ cxLive[e]
                      THEN Append(mailbox[e], [sender |-> d, send_time |-> t])
                      ELSE mailbox[e]]
           /\ cursor' = [cursor EXCEPT ![d] = t + cxPeriod[d]]
           /\ roundTime' = [roundTime EXCEPT ![d] = t]
           /\ lastRound' = [n |-> lastRound.n + 1, dev |-> d, time |-> t,
                            failed |-> fails]
    /\ UNCHANGED <<retain_window, cxLive, cxPeriod>>
    /\ UNCHANGED notCx

\* node_erase: the device is destroyed, with its mailbox.
CxErase(d) ==
    /\ cxLive[d]
    /\ cxLive' = [cxLive EXCEPT ![d] = FALSE]
    /\ mailbox' = [mailbox EXCEPT ![d] = <<>>]
    /\ UNCHANGED <<retain_window, cursor, cxPeriod, cxExport, cxContext,
                   roundTime, lastHeard, lastRound>>
    /\ UNCHANGED notCx

NextCx ==
    \/ \E d \in CxDevices, fails \in BOOLEAN : CxRound(d, fails)
    \/ \E d \in CxDevices : CxErase(d)

SpecCx == InitCx /\ [][NextCx]_vars

---------------------------------------------------------------------------
(* Claims about the round engine *)

\* C22: after a round of a device at time t its context has no entry of
\* reception time smaller than t - retain_window; in particular an entry of
\* b recorded last at time 10 is gone, with retain_window = 5, after the
\* round of a at time 16.
C22_ContextRetention ==
    \A d \in CxDevices :
        roundTime[d] >= 0 =>
            \A u \in CxDevices \ {d} :
                /\ cxContext[d][u] # NoEntry =>
                      cxContext[d][u] >= roundTime[d] - retain_window
                /\ (lastHeard[d][u] >= 0
                    /\ lastHeard[d][u] < roundTime[d] - retain_window) =>
                      cxContext[d][u] = NoEntry

\* C22 witness: a heard from b at time 10 and never again; after its round
\* at time 16, with retain_window = 5, a has no entry of b.
C22_Witness ==
    /\ retain_window = 5
    /\ lastHeard[1][2] = 10
    /\ roundTime[1] = 16
    /\ cxContext[1][2] = NoEntry
    /\ ~cxLive[2]


\* C23: a round that fails aborts only that round of that device: the
\* export the device had is kept, the device is rescheduled one period
\* later as after any round, and the export, context, mailbox and cursor of
\* the other device are as they were.
C23_Step ==
    (lastRound'.n = lastRound.n + 1 /\ lastRound'.failed) =>
        LET d == lastRound'.dev
        IN  /\ cxExport'[d] = cxExport[d]
            /\ cursor'[d] = cursor[d] + cxPeriod[d]
            /\ cxLive' = cxLive
            /\ cxPeriod' = cxPeriod
            /\ \A e \in CxDevices \ {d} :
                  /\ cxExport'[e] = cxExport[e]
                  /\ cursor'[e] = cursor[e]
                  /\ cxContext'[e] = cxContext[e]
                  /\ mailbox'[e] = mailbox[e]
                  /\ roundTime'[e] = roundTime[e]

C23_FailedRoundIsLocal == [][C23_Step]_vars

\* C23 witness: a round failed on a device that had sealed an export in an
\* earlier round, while an envelope waited in the mailbox of the other.
C23_Witness ==
    /\ lastRound.n > 0
    /\ lastRound.failed
    /\ cxExport[lastRound.dev] >= 0
    /\ cxExport[lastRound.dev] < lastRound.time
    /\ cursor[lastRound.dev] = lastRound.time + cxPeriod[lastRound.dev]
    /\ \E e \in CxDevices \ {lastRound.dev} : mailbox[e] # <<>>


---------------------------------------------------------------------------
(* logger: the nodes of a net, their rounds, and the aggregators from     *)
(* which the rows are written.                                            *)

NodeIds == 1..MaxNodes

NoRow == [written |-> FALSE, data |-> <<>>, present |-> <<>>]

NoPush == [op |-> "none", tuple |-> 0]

\* aggregator_erase_impl: erase of the value of one node
aggregator_erase_impl(a, v) == [a EXCEPT ![v] = @ - 1]

\* The nodes from node_begin() to node_end(): those emplaced and not erased.
Present == {n \in NodeIds : lifecycle[n] \in {"idle", "round"}}

\* The loop of data_puller over the nodes S, from the aggregators a. (With
\* several threads the aggregate is the same, see C12.)
RECURSIVE data_puller(_, _)
data_puller(a, S) ==
    IF S = {} THEN a
    ELSE LET n == CHOOSE m \in S : \A k \in S : m <= k
         IN  data_puller(aggregator_insert_impl(a, nodeStorage[n]), S \ {n})

InitAgg ==
    /\ value_push \in BOOLEAN
    /\ lifecycle = [n \in NodeIds |-> "unborn"]
    /\ nodeStorage = [n \in NodeIds |-> 1]
    /\ netAggregators = EmptyAggregator
    /\ lastPush = [n \in NodeIds |-> NoPush]
    /\ lastRow = NoRow
    /\ IdleOs
    /\ IdleGs
    /\ IdleLg
    /\ IdlePl
    /\ IdleSq
    /\ IdleSc
    /\ IdleNw
    /\ IdleTr
    /\ IdleSt
    /\ IdleAr
    /\ IdleCx
    /\ IdleGd

\* node(n, t): the node is built with the storage tuple v.
NodeConstruct(n, v) ==
    /\ lifecycle[n] = "unborn"
    /\ lifecycle' = [lifecycle EXCEPT ![n] = "idle"]
    /\ nodeStorage' = [nodeStorage EXCEPT ![n] = v]
    /\ IF value_push
       THEN /\ netAggregators' = aggregator_insert_impl(netAggregators, v)
            /\ lastPush' = [lastPush EXCEPT ![n] = [op |-> "insert", tuple |-> v]]
       ELSE UNCHANGED <<netAggregators, lastPush>>
    /\ UNCHANGED <<value_push, lastRow>>
    /\ UNCHANGED notAg

\* A round_start that leaves the aggregators alone.
RoundStart_NoErase(n) ==
    /\ lifecycle[n] = "idle"
    /\ lifecycle' = [lifecycle EXCEPT ![n] = "round"]
    /\ UNCHANGED <<value_push, nodeStorage, netAggregators, lastPush, lastRow>>
    /\ UNCHANGED notAg

\* node::round_start(t)
RoundStart(n) ==
    /\ lifecycle[n] = "idle"
    /\ lifecycle' = [lifecycle EXCEPT ![n] = "round"]
    /\ IF value_push
       THEN /\ netAggregators' =
                  aggregator_erase_impl(netAggregators, nodeStorage[n])
            /\ lastPush' = [lastPush EXCEPT
                  ![n] = [op |-> "erase", tuple |-> nodeStorage[n]]]
       ELSE UNCHANGED <<netAggregators, lastPush>>
    /\ UNCHANGED <<value_push, nodeStorage, lastRow>>
    /\ UNCHANGED notAg

\* The round of the node writes its storage.
RoundCompute(n, v) ==
    /\ lifecycle[n] = "round"
    /\ nodeStorage[n] # v
    /\ nodeStorage' = [nodeStorage EXCEPT ![n] = v]
    /\ UNCHANGED <<value_push, lifecycle, netAggregators, lastPush, lastRow>>
    /\ UNCHANGED notAg

\* node::round_end(t)
RoundEnd(n) ==
    /\ lifecycle[n] = "round"
    /\ lifecycle' = [lifecycle EXCEPT ![n] = "idle"]
    /\ IF value_push
       THEN /\ netAggregators' =
                  aggregator_insert_impl(netAggregators, nodeStorage[n])
            /\ lastPush' = [lastPush EXCEPT
                  ![n] = [op |-> "insert", tuple |-> nodeStorage[n]]]
       ELSE UNCHANGED <<netAggregators, lastPush>>
    /\ UNCHANGED <<value_push, nodeStorage, lastRow>>
    /\ UNCHANGED notAg

\* ~node(): the node is erased from the net, between its rounds.
NodeDestruct(n) ==
    /\ lifecycle[n] = "idle"
    /\ lifecycle' = [lifecycle EXCEPT ![n] = "dead"]
    /\ IF value_push
       THEN /\ netAggregators' =
                  aggregator_erase_impl(netAggregators, nodeStorage[n])
            /\ lastPush' = [lastPush EXCEPT
                  ![n] = [op |-> "erase", tuple |-> nodeStorage[n]]]
       ELSE UNCHANGED <<netAggregators, lastPush>>
    /\ UNCHANGED <<value_push, nodeStorage, lastRow>>
    /\ UNCHANGED notAg

\* A row after which the aggregators are left as they are.
LogRow_NoReset ==
    /\ \A n \in NodeIds : lifecycle[n] # "round"
    /\ LET a == IF value_push THEN netAggregators
                ELSE data_puller(netAggregators, Present)
       IN  /\ lastRow' = [written |-> TRUE, data |-> a,
                          present |-> [n \in Present |-> nodeStorage[n]]]
           /\ netAggregators' = a
    /\ UNCHANGED <<value_push, lifecycle, nodeStorage, lastPush>>
    /\ UNCHANGED notAg

\* The row branch of net::update(): the data is pulled unless pushed, the
\* row is written, the aggregators are reset unless values are pushed. The
\* rounds run inside P::net::update(), so none is open here.
LogRow ==
    /\ \A n \in NodeIds : lifecycle[n] # "round"
    /\ LET a == IF value_push THEN netAggregators
                ELSE data_puller(netAggregators, Present)
       IN  /\ lastRow' = [written |-> TRUE, data |-> a,
                          present |-> [n \in Present |-> nodeStorage[n]]]
           /\ netAggregators' = IF ~value_push THEN EmptyAggregator ELSE a
    /\ UNCHANGED <<value_push, lifecycle, nodeStorage, lastPush>>
    /\ UNCHANGED notAg

NextAgg ==
    \/ \E n \in NodeIds, v \in StorageValues : NodeConstruct(n, v)
    \/ \E n \in NodeIds : RoundStart(n)
    \/ \E n \in NodeIds, v \in StorageValues : RoundCompute(n, v)
    \/ \E n \in NodeIds : RoundEnd(n)
    \/ \E n \in NodeIds : NodeDestruct(n)
    \/ LogRow

SpecAgg == InitAgg /\ [][NextAgg]_vars

---------------------------------------------------------------------------
(* Claims about the aggregators *)

\* The aggregator that was given the tuples f[n] of the nodes n in S once.
TuplesOf(S, f) == [v \in StorageValues |-> Cardinality({n \in S : f[n] = v})]

\* With value_push the aggregators hold the tuples of the live nodes that
\* are not in a round.
C25_Holds ==
    value_push =>
        netAggregators =
            TuplesOf({n \in NodeIds : lifecycle[n] = "idle"}, nodeStorage)

\* The aggregator calls of a node: an insert at construction and at every
\* round_end, an erase at every round_start and at destruction; an insert
\* follows an erase or is the first call, an erase follows an insert and
\* erases the tuple inserted.
C25_Step ==
    value_push =>
        \A n \in NodeIds :
            LET built == lifecycle[n] = "unborn" /\ lifecycle'[n] = "idle"
                ended == lifecycle[n] = "round" /\ lifecycle'[n] = "idle"
                begun == lifecycle[n] = "idle" /\ lifecycle'[n] = "round"
                destr == lifecycle[n] = "idle" /\ lifecycle'[n] = "dead"
            IN  /\ (built \/ ended) =>
                      /\ lastPush'[n] = [op |-> "insert",
                                         tuple |-> nodeStorage'[n]]
                      /\ lastPush[n].op = IF built THEN "none" ELSE "erase"
                /\ (begun \/ destr) =>
                      /\ lastPush'[n].op = "erase"
                      /\ lastPush[n].op = "insert"
                      /\ lastPush'[n].tuple = lastPush[n].tuple
                /\ ~(built \/ ended \/ begun \/ destr) =>
                      lastPush'[n] = lastPush[n]

\* C25: with value_push the aggregators hold at every moment exactly the
\* storage tuples of the live nodes that are not between round_start and
\* round_end; for each node inserts and erases alternate, starting with an
\* insert, and the tuple erased is the one inserted last.
C25_PushedValues == []C25_Holds /\ [][C25_Step]_vars

\* C25 witness: a node was erased whose storage a round had changed, while
\* another node is in a round and a third one is between rounds.
C25_Witness ==
    /\ value_push
    /\ \E n, m, k \in NodeIds :
          /\ lifecycle[n] = "dead"
          /\ lastPush[n] = [op |-> "erase", tuple |-> 2]
          /\ lifecycle[m] = "round"
          /\ lifecycle[k] = "idle"
          /\ netAggregators = aggregator_insert_impl(EmptyAggregator,
                                                     nodeStorage[k])

\* In pull mode the aggregators are empty whenever no row is being written,
\* and the last row holds each node present when it was written once.
C26_Rows ==
    /\ ~value_push => netAggregators = EmptyAggregator
    /\ (~value_push /\ lastRow.written) =>
          lastRow.data = TuplesOf(DOMAIN lastRow.present, lastRow.present)

\* A row written with value_push leaves the aggregators as they are.
C26_Step ==
    (value_push /\ lastRow' # lastRow) =>
        /\ netAggregators' = netAggregators
        /\ lastRow'.data = netAggregators

\* C26: in pull mode every row aggregates each node present at log time
\* exactly once and nothing else: the aggregators are empty before the pull
\* and reset after the row; with value_push a row does not reset them.
C26_PulledRows == []C26_Rows /\ [][C26_Step]_vars

\* C26 witness: in pull mode a row of two nodes was written after a node
\* that an earlier row held had been erased.
C26_Witness ==
    /\ ~value_push
    /\ lastRow.written
    /\ Cardinality(DOMAIN lastRow.present) = 2
    /\ \E n \in NodeIds : lifecycle[n] = "dead"
    /\ netAggregators = EmptyAggregator


---------------------------------------------------------------------------
(* The sequence generators, called through step() and through operator() *)

\* The generators tried on their own: those merged, and periodic sequences
\* of a longer and of a negative period, also with a first event past the end.
LoneGenerators ==
    SubGenerators
    \cup {Periodic(s, p, te, n) : s \in {1, MaxTime}, p \in {-1, 2},
                                  te \in {2, TIME_MAX},
                                  n \in 0..(MaxEvents + 1)}

\* The sub-sequences of the merges of three.
FewGenerators ==
    {Never, Multiple(1, 1), List(<<2, 1>>), Periodic(0, 1, 2, MaxEvents)}

\* No sub-sequence is a periodic sequence of negative period.
NonNegativePeriods ==
    \A k \in 1..Len(generatorsInit) : generatorsInit[k].p >= 0

\* An operator() that returns the next event and does not step over it.
schedule_call_NoStep(g) == [ret |-> schedule_next(g), gen |-> g]

\* operator() of the generator g: the value returned and the generator after
schedule_call(g) ==
    CASE g.kind = "never" -> [ret |-> TIME_MAX, gen |-> g]
      [] g.kind = "multiple" ->
            [ret |-> schedule_next(g), gen |-> schedule_step(g)]
      [] g.kind = "independent" ->
            [ret |-> schedule_next(g), gen |-> schedule_step(g)]
      [] g.kind = "list" ->
            [ret |-> IF g.i < Len(g.pending) THEN g.pending[g.i + 1]
                     ELSE TIME_MAX,
             gen |-> [g EXCEPT !.i = @ + 1]]
      [] g.kind = "periodic" ->
            [ret |-> IF g.i < g.n /\ g.t <= g.te THEN g.t ELSE TIME_MAX,
             gen |-> [g EXCEPT !.i = @ + 1, !.t = @ + g.p]]

\* empty() of merge<Ss...>: of never, of S itself, of the merge of several
merge_empty(gs, mnext) ==
    IF gs = <<>> THEN TRUE
    ELSE IF Len(gs) = 1 THEN schedule_empty(gs[1])
    ELSE mnext = TIME_MAX

\* next() of merge<Ss...>
merge_next(gs, mnext) ==
    IF gs = <<>> THEN TIME_MAX
    ELSE IF Len(gs) = 1 THEN schedule_next(gs[1])
    ELSE mnext

\* operator() of merge<Ss...>: never::operator(), S::operator(), or
\* nt = next(); step(g); return nt
merge_call(gs, mnext) ==
    IF gs = <<>> THEN [ret |-> TIME_MAX, gens |-> gs]
    ELSE IF Len(gs) = 1
         THEN [ret |-> schedule_call(gs[1]).ret,
               gens |-> <<schedule_call(gs[1]).gen>>]
    ELSE [ret |-> mnext, gens |-> merge_step(gs, mnext)]

\* merge::next_sequence(index_sequence<i, ...>), counted from 1: the first
\* sub-sequence from the i-th on whose next event is m_next, the last one
\* when no earlier one is.
RECURSIVE next_sequence_from(_, _, _)
next_sequence_from(gs, i, mnext) ==
    IF i >= Len(gs) \/ schedule_next(gs[i]) = mnext THEN i
    ELSE next_sequence_from(gs, i + 1, mnext)

\* merge::next_sequence(), counted from 0; merge<S> returns 0
next_sequence(gs, mnext) ==
    IF Len(gs) = 1 THEN 0 ELSE next_sequence_from(gs, 1, mnext) - 1

\* The assertion of step(g, index_sequence<i>) and of
\* next_sequence(index_sequence<i>): reached when no earlier sub-sequence
\* has its next event at m_next, it wants the last one to have it.
assert_last(gs, mnext) ==
    (\A k \in 1..(Len(gs) - 1) : schedule_next(gs[k]) # mnext)
        => schedule_next(gs[Len(gs)]) = mnext

\* The counters of list and periodic grow with every step: they are followed
\* as far as the calls of operator() are.
MayStep == \A k \in 1..Len(m_generators) : m_generators[k].i < MaxSteps

InitGen ==
    /\ m_generators \in
          {<<>>} \cup {<<g>> : g \in LoneGenerators}
                 \cup {<<g, h>> : g, h \in SubGenerators}
                 \cup {<<f, g, h>> : f, g, h \in FewGenerators}
    /\ m_next = set_next(m_generators)
    /\ generatorsInit = m_generators
    /\ produced = <<>>
    /\ IdleOs
    /\ IdleGs
    /\ IdleLg
    /\ IdlePl
    /\ IdleSc
    /\ IdleNw
    /\ IdleTr
    /\ IdleSt
    /\ IdleAr
    /\ IdleCx
    /\ IdleAg
    /\ IdleGd

\* step() of merge<Ss...>
GenStep ==
    /\ MayStep
    /\ m_generators' = merge_step(m_generators, m_next)
    /\ m_next' = set_next(m_generators')
    /\ UNCHANGED <<generatorsInit, produced>>
    /\ UNCHANGED notSq

\* operator() of merge<Ss...>
GenCall ==
    /\ MayStep
    /\ Len(produced) < MaxSteps
    /\ m_generators' = merge_call(m_generators, m_next).gens
    /\ m_next' = set_next(m_generators')
    /\ produced' = Append(produced, merge_call(m_generators, m_next).ret)
    /\ UNCHANGED generatorsInit
    /\ UNCHANGED notSq

NextGen == GenStep \/ GenCall

SpecGen == InitGen /\ [][NextGen]_vars


---------------------------------------------------------------------------
(* Claims about step() and operator() of the sequence generators *)

\* empty() says what next() says, for each sub-sequence and for the whole.
C31_Holds ==
    /\ \A k \in 1..Len(m_generators) :
          schedule_empty(m_generators[k])
             <=> schedule_next(m_generators[k]) = TIME_MAX
    /\ merge_empty(m_generators, m_next)
          <=> merge_next(m_generators, m_next) = TIME_MAX

\* A step() or an operator() leaves an exhausted generator exhausted, and an
\* operator() on it returns TIME_MAX.
C31_Step ==
    /\ \A k \in 1..Len(m_generators) :
          schedule_empty(m_generators[k]) => schedule_empty(m_generators'[k])
    /\ merge_empty(m_generators, m_next) =>
          /\ merge_empty(m_generators', m_next')
          /\ merge_next(m_generators', m_next') = TIME_MAX
          /\ produced' # produced => produced'[Len(produced')] = TIME_MAX

C32_Holds ==
    \A k \in 1..Len(m_generators) :
        /\ schedule_call(m_generators[k]).ret = schedule_next(m_generators[k])
        /\ schedule_call(m_generators[k]).gen = schedule_step(m_generators[k])

\* A call of operator() appends a value to produced: it is the value of
\* next() before the call, and the generator is left as step() leaves it.
C32_Step ==
    produced' # produced =>
        /\ produced'[Len(produced')] = merge_next(m_generators, m_next)
        /\ m_generators' = merge_step(m_generators, m_next)
        /\ m_next' = set_next(merge_step(m_generators, m_next))

\* C32: for every sequence generator operator() is next() followed by
\* step(): it returns the value next() would have returned in the same state
\* and leaves the generator in the state one step() call would.
C32_CallIsNextThenStep == []C32_Holds /\ [][C32_Step]_vars

\* C32 witness: a periodic sequence of period 1 on its own was called twice
\* and never stepped; the second value is the first plus the period.
C32_Witness ==
    /\ Len(generatorsInit) = 1
    /\ generatorsInit[1].kind = "periodic"
    /\ generatorsInit[1].p = 1
    /\ Len(produced) = 2
    /\ m_generators[1].i = 2
    /\ produced[2] = produced[1] + 1
    /\ produced[2] < TIME_MAX


\* The k-th event (k from 0) of the periodic sequence g as constructed:
\* s + k*p when k < n and s + k*p <= e, the time of no event otherwise.
PeriodicEvent(g, k) ==
    IF k < g.n /\ g.t + k * g.p <= g.te THEN g.t + k * g.p ELSE TIME_MAX

\* The generator is a periodic sequence on its own, of period >= 0.
LonePeriodic ==
    /\ Len(generatorsInit) = 1
    /\ generatorsInit[1].kind = "periodic"
    /\ generatorsInit[1].p >= 0

\* After k steps and calls next() is the k-th event; no value returned is
\* later than e, and no more than n values are events.
C33_Holds ==
    LonePeriodic =>
        /\ schedule_next(m_generators[1])
              = PeriodicEvent(generatorsInit[1], m_generators[1].i)
        /\ \A k \in 1..Len(produced) :
              produced[k] < TIME_MAX => produced[k] <= generatorsInit[1].te
        /\ Cardinality({k \in 1..Len(produced) : produced[k] < TIME_MAX})
              <= generatorsInit[1].n

\* The call of operator() after k steps and calls returns the k-th event,
\* and every step or call counts as one.
C33_Step ==
    LonePeriodic =>
        /\ m_generators'[1].i = m_generators[1].i + 1
        /\ produced' # produced =>
              produced'[Len(produced')]
                 = PeriodicEvent(generatorsInit[1], m_generators[1].i)

\* C33: sequence::periodic with first event s, constant period p >= 0, end
\* time e and maximum count n produces exactly the events s + k*p for the
\* k >= 0 with k < n and s + k*p <= e, in that order, and TIME_MAX
\* afterwards: never more than n events, never an event later than e.
C33_PeriodicEvents == []C33_Holds /\ [][C33_Step]_vars

\* C33 witness: first event 1, period 2, end 2 and three events allowed: the
\* sequence has returned 1 and then TIME_MAX, as 3 is past the end.
C33_Witness ==
    /\ LonePeriodic
    /\ generatorsInit[1].t = 1
    /\ generatorsInit[1].p = 2
    /\ generatorsInit[1].te = 2
    /\ generatorsInit[1].n = 3
    /\ produced = <<1, TIME_MAX>>
    /\ m_generators[1].i = 2


\* The lowest index of a sub-sequence whose next event is the smallest.
LowestAtMin(gs) ==
    CHOOSE j \in 1..Len(gs) :
        /\ \A k \in 1..Len(gs) : schedule_next(gs[j]) <= schedule_next(gs[k])
        /\ \A k \in 1..(j - 1) : schedule_next(gs[k]) > schedule_next(gs[j])

\* The stored next time of a merge of several sub-sequences is the smallest
\* of their next events, and the assertions hold.
C34_Holds ==
    Len(m_generators) >= 2 =>
        /\ \A k \in 1..Len(m_generators) :
              m_next <= schedule_next(m_generators[k])
        /\ \E k \in 1..Len(m_generators) :
              m_next = schedule_next(m_generators[k])
        /\ assert_last(m_generators, m_next)
        /\ next_sequence(m_generators, m_next) + 1 = LowestAtMin(m_generators)

\* A step() or operator() of a merge of several sub-sequences steps the
\* sub-sequence next_sequence() names, the lowest one at the minimum, and
\* no other.
C34_Step ==
    Len(m_generators) >= 2 =>
        LET j == LowestAtMin(m_generators)
        IN  /\ m_generators'[j] = schedule_step(m_generators[j])
            /\ \A k \in 1..Len(m_generators) :
                  k # j => m_generators'[k] = m_generators[k]

\* C34: after construction and after every step() the stored next time of
\* merge is the minimum of the next() of its sub-sequences; a step()
\* advances exactly one sub-sequence, the lowest-indexed one whose next() is
\* that minimum, and leaves the others unchanged; next_sequence() returns
\* the index of that sub-sequence; the assertions on the last sub-sequence
\* never fail.
C34_MergeStepsLowest == []C34_Holds /\ [][C34_Step]_vars

\* C34 witness: two sub-sequences had their next event at the same time; one
\* step() has advanced the first and left the second, whose event is now
\* the next of the merge.
C34_Witness ==
    /\ Len(generatorsInit) = 2
    /\ schedule_next(generatorsInit[1]) = schedule_next(generatorsInit[2])
    /\ schedule_next(generatorsInit[1]) < TIME_MAX
    /\ produced = <<>>
    /\ m_generators[1] = schedule_step(generatorsInit[1])
    /\ m_generators[1] # generatorsInit[1]
    /\ m_generators[2] = generatorsInit[2]
    /\ m_next = schedule_next(generatorsInit[2])
    /\ next_sequence(m_generators, m_next) = 1


---------------------------------------------------------------------------
(* sequence::details::grid *)

\* The lower extremes tried, and the distance to the upper extreme: a
\* multiple of every divisor met, so that the division of reals is exact.
Lowers == {0, 1}
Width == 12

\* std::max(m_mods[i] - 1, size_t(1)) for m_mods[i] >= 1
StepsBetween(n) == IF n - 1 > 1 THEN n - 1 ELSE 1

\* Divisors that let every axis move at every step.
grid_divs_Ones(mods, i) == 1

\* m_divs[0] = 1; m_divs[i] = m_divs[i-1] * m_mods[i-1], axes counted from 1
RECURSIVE grid_divs(_, _)
grid_divs(mods, i) ==
    IF i = 1 THEN 1 ELSE grid_divs(mods, i - 1) * mods[i - 1]

\* grid::empty
grid_empty == m_i >= m_divs[Len(m_divs)] * m_mods[Len(m_mods)]

\* grid::next with m_i at k
grid_next(k) ==
    [i \in 1..Len(m_init) |->
        m_init[i] + m_step[i] * ((k \div m_divs[i]) % m_mods[i])]

\* grid::grid: lower extremes l, upper extremes u, steps per axis ns
InitGrid ==
    /\ \E d \in 1..MaxDim :
          /\ m_init \in [1..d -> Lowers]
          /\ m_mods \in [1..d -> 1..MaxMods]
    /\ m_step = [i \in 1..Len(m_init) |->
                    LET u == m_init[i] + Width
                    IN  (u - m_init[i]) \div StepsBetween(m_mods[i])]
    /\ m_divs = [i \in 1..Len(m_init) |-> grid_divs(m_mods, i)]
    /\ m_i = 0
    /\ lastPoint = <<>>
    /\ IdleOs
    /\ IdleGs
    /\ IdleLg
    /\ IdlePl
    /\ IdleSq
    /\ IdleSc
    /\ IdleNw
    /\ IdleTr
    /\ IdleSt
    /\ IdleAr
    /\ IdleCx
    /\ IdleAg

\* grid::step, on a sequence that is not finished
GridStep ==
    /\ ~grid_empty
    /\ m_i' = m_i + 1
    /\ UNCHANGED <<m_init, m_step, m_mods, m_divs, lastPoint>>
    /\ UNCHANGED notGd

\* grid::operator(): p = next(); step(g); return p
GridCall ==
    /\ ~grid_empty
    /\ lastPoint' = grid_next(m_i)
    /\ m_i' = m_i + 1
    /\ UNCHANGED <<m_init, m_step, m_mods, m_divs>>
    /\ UNCHANGED notGd

NextGrid == GridStep \/ GridCall

SpecGrid == InitGrid /\ [][NextGrid]_vars


---------------------------------------------------------------------------
(* Claims about the grid *)

\* n_0 * ... * n_{i-1} for the steps ns, axes counted from 1: the product
\* of the first i - 1 of them
RECURSIVE ProductBefore(_, _)
ProductBefore(ns, i) ==
    IF i <= 1 THEN 1 ELSE ns[i - 1] * ProductBefore(ns, i - 1)

\* The number of points of the grid.
GridSize == ProductBefore(m_mods, Len(m_mods) + 1)

\* The index on axis i of the k-th point (k from 0).
AxisIndex(k, i) == (k \div ProductBefore(m_mods, i)) % m_mods[i]

\* The point of the indices ix.
PointAt(ix) == [i \in 1..Len(m_init) |-> m_init[i] + m_step[i] * ix[i]]

\* The grid is finished exactly after as many points as the product of the
\* steps; the point after k steps has the indices of the claim; an axis of
\* one step is at its lower extreme, and the first axis moves at every step;
\* when the grid is finished the points it went through are those of all
\* the index tuples, each once.
C35_Holds ==
    m_mods # <<>> =>
        /\ grid_empty <=> m_i >= GridSize
        /\ m_i <= GridSize
        /\ m_i < GridSize =>
              /\ grid_next(m_i)
                    = PointAt([i \in 1..Len(m_mods) |-> AxisIndex(m_i, i)])
              /\ \A i \in 1..Len(m_mods) :
                    m_mods[i] = 1 => grid_next(m_i)[i] = m_init[i]
              /\ m_i + 1 < GridSize /\ m_mods[1] > 1 =>
                    grid_next(m_i + 1)[1] # grid_next(m_i)[1]
        /\ grid_empty =>
              /\ {grid_next(k) : k \in 0..(m_i - 1)}
                    = {PointAt(ix) :
                          ix \in {f \in [1..Len(m_mods) -> 0..(MaxMods - 1)] :
                                     \A i \in 1..Len(m_mods) : f[i] < m_mods[i]}}
              /\ Cardinality({grid_next(k) : k \in 0..(m_i - 1)}) = GridSize

\* operator() returns the point of the number of points stepped over, and
\* every step() and operator() counts one point.
C35_Step ==
    m_mods # <<>> =>
        /\ m_i' = m_i + 1
        /\ lastPoint' # lastPoint =>
              lastPoint' = PointAt([i \in 1..Len(m_mods) |-> AxisIndex(m_i, i)])

\* C35: a grid with n_i >= 1 steps on axis i produces exactly the product of
\* all n_i points before empty() becomes true; the k-th point (k from 0) has
\* on axis i the index (k div (n_0 * ... * n_{i-1})) mod n_i, so every index
\* tuple occurs exactly once and the first axis varies fastest; an axis with
\* n_i = 1 always stays at its lower extreme.
C35_GridPoints == []C35_Holds /\ [][C35_Step]_vars

\* C35 witness: a grid of 3 by 2 steps is finished after six points; the
\* last one returned is the upper extreme on both axes.
C35_Witness ==
    /\ m_mods = <<3, 2>>
    /\ m_i = 6
    /\ grid_empty
    /\ lastPoint = <<m_init[1] + Width, m_init[2] + Width>>

=============================================================================
